---- MODULE Spec2Model ----
(***************************************************************************)
(* NexusBridge relayer: the durable store (transfers and signatures        *)
(* tables, internal/models) and the callers that drive it.                 *)
(*                                                                         *)
(* A table is a bag of rows: the database keeps every inserted row, and    *)
(* only a constraint of the schema (PRIMARY KEY, UNIQUE, FOREIGN KEY,      *)
(* CHECK) refuses an insert.  Every SQL statement is one atomic step; a    *)
(* Go method that issues two statements is two steps.                      *)
(***************************************************************************)
EXTENDS Integers, FiniteSets, Sequences, Bags, TLC

VARIABLES
    transfers,    \* table transfers: bag of rows
    signatures,   \* table signatures: bag of rows
    lastCall,     \* the last call that returned: [op, id, arg, err]
    completing,   \* MarkTransferComplete calls between their two statements
    pc,           \* coordinator -> position in the signing/submission flow
    cur,          \* coordinator -> transfer id it works on
    destTx,       \* coordinator -> hash of the transaction it sent
    sent,         \* transfer id -> destination transactions sent for it
    finished,     \* transfer id -> MarkTransferComplete calls that returned nil
    batch,        \* signature deliveries still on their way from peers
    offered,      \* signature deliveries already handed to RecordSignature
    head,         \* source chain: number of its latest block
    hashAt,       \* source chain: block number -> hash of the canonical block
    lastBlock,    \* EthereumAdapter.lastBlock
    seenHash,     \* hash the block at lastBlock had when lastBlock was set
    eventChan,    \* the events sent on the event channel
    pollErr,      \* error returned by the last fetchAndProcessEvents
    subPc,        \* transfer id -> position of its SubmitTransaction call
    subNonce,     \* transfer id -> nonce its SubmitTransaction call read
    handed,       \* signed transactions handed to client.SendTransaction
    mempool,      \* destination node: pending transactions of the account
    included,     \* destination chain: mined transactions, with their block
    destHead,     \* destination chain: number of its latest block
    expired,      \* transfer id -> its signature collection window is over
    ctxDone,      \* the context of ListenForEvents is cancelled
    wpc,          \* position of the pollEvents goroutine
    toSend,       \* events of the running poll not yet sent
    pollTo,       \* currentBlock of the running poll
    reading,      \* the consumer receives from the event channel
    adapter,      \* EthereumAdapter: connected, config, client
    contract,     \* the bridge contract under call
    bridge,       \* storage of the bridge contract
    bridgeCall,   \* the last call of the bridge contract and its outcome
    prepared,     \* the signature array the caller of the contract holds
    cosmos,       \* the Cosmos bridge: records, tokens, relayers, balances
    cosmosCall,   \* the last call of the Cosmos bridge and its outcome
    codec,        \* a BigInt, its JSON text and the BigInt read back
    loops,        \* poll loop -> position, currentBlock and events in hand
    sentBag       \* the events sent on the event channel, with multiplicity

vars == <<transfers, signatures, lastCall, completing, pc, cur, destTx, sent,
          finished, batch, offered, head, hashAt, lastBlock, seenHash,
          eventChan, pollErr, subPc, subNonce, handed, mempool, included,
          destHead, expired, ctxDone, wpc, toSend, pollTo, reading, adapter,
          contract, bridge, bridgeCall, prepared, cosmos, cosmosCall, codec,
          loops, sentBag>>

ledgerVars  == <<transfers, lastCall, completing>>
coordVars   == <<pc, cur, destTx, sent, finished>>
collectVars == <<batch, offered>>
chainVars   == <<head, hashAt>>
watchVars   == <<lastBlock, seenHash, eventChan, pollErr>>
execVars    == <<subPc, subNonce, handed, mempool, included, destHead>>
cancelVars  == <<ctxDone, wpc, toSend, pollTo, reading>>
bridgeVars  == <<contract, bridge, bridgeCall, prepared>>
laterVars   == <<cosmos, cosmosCall, codec, loops, sentBag>>
otherVars   == <<execVars, expired, cancelVars, adapter, bridgeVars, laterVars>>

----------------------------------------------------------------------------
(* Types of pkg/types *)

StatusPending     == "pending"
StatusConfirming  == "confirming"
StatusSigned      == "signed"
StatusExecuting   == "executing"
StatusCompleted   == "completed"
StatusFailed      == "failed"
StatusUnderReview == "under_review"

TransferStatus ==
    {StatusPending, StatusConfirming, StatusSigned, StatusExecuting,
     StatusCompleted, StatusFailed, StatusUnderReview}

ChainEthereum == 1
ChainPolygon  == 137

\* The transfer ids and destination transaction hashes the callers use.
TransferIds == {"T1", "T2"}
TxHashes    == {"0xd1", "0xd2"}

NoError == "nil"

\* A well-formed transfer as parseTokensLockedEvent builds it.
LockTransfer(id) ==
    [id |-> id, source_chain |-> ChainEthereum, destination_chain |-> ChainPolygon,
     token |-> "0xTok", amount |-> 1, sender |-> "0xSnd", recipient |-> "0xRcp",
     status |-> StatusPending, destination_tx_hash |-> ""]

\* The transfers handed to RecordTransfer: well-formed ones, and ones with a
\* single field that Validate or the schema refuses.
InputTransfers ==
    UNION {
        { LockTransfer(id),
          [LockTransfer(id) EXCEPT !.destination_chain = ChainEthereum],
          [LockTransfer(id) EXCEPT !.amount = 0],
          [LockTransfer(id) EXCEPT !.token = ""],
          [LockTransfer(id) EXCEPT !.sender = ""],
          [LockTransfer(id) EXCEPT !.recipient = ""],
          [LockTransfer(id) EXCEPT !.status = ""] } : id \in TransferIds }
    \cup { LockTransfer("") }

\* Transfer.Validate
Validate_Off(t) == NoError

Validate(t) ==
    IF t.id = "" THEN "transfer ID is required"
    ELSE IF t.source_chain = t.destination_chain
        THEN "source and destination chains must be different"
    ELSE IF t.amount <= 0 THEN "amount must be positive"
    ELSE IF t.token = "" THEN "token address is required"
    ELSE IF t.sender = "" THEN "sender address is required"
    ELSE IF t.recipient = "" THEN "recipient address is required"
    ELSE NoError

----------------------------------------------------------------------------
(* Tables as bags *)

RECURSIVE SumOver(_, _)
SumOver(b, S) ==
    IF S = {} THEN 0
    ELSE LET r == CHOOSE x \in S : TRUE IN b[r] + SumOver(b, S \ {r})

\* Number of rows of table b among the matching rows (RowsAffected, COUNT(*)).
RowCount(b, matching) == SumOver(b, matching \cap BagToSet(b))

\* UPDATE b SET column = value WHERE ...: every matching row is replaced.
UpdateWhere(b, matching, column, value) ==
    LET old == BagToSet(b)
        img(r) == IF r \in matching THEN [r EXCEPT ![column] = value] ELSE r
        new == {img(r) : r \in old}
    IN [n \in new |-> SumOver(b, {r \in old : img(r) = n})]

InsertRow(b, row) == b (+) SetToBag({row})

----------------------------------------------------------------------------
(* Table transfers *)

\* transfers.id PRIMARY KEY
PrimaryKeyViolation_Off(tbl, id) == FALSE

PrimaryKeyViolation(tbl, id) == \E r \in BagToSet(tbl) : r.id = id

\* chk_different_chains, chk_positive_amount, chk_valid_status
CheckViolation(t) ==
    \/ t.source_chain = t.destination_chain
    \/ t.amount <= 0
    \/ t.status \notin TransferStatus

\* The error Create wraps when the insert hits the primary key.
DuplicateTransfer == "failed to create transfer: duplicate key"

\* The error Create wraps around the error of Validate.
ValidationFailed(msg) ==
    CASE msg = "transfer ID is required"
            -> "transfer validation failed: transfer ID is required"
      [] msg = "source and destination chains must be different"
            -> "transfer validation failed: source and destination chains must be different"
      [] msg = "amount must be positive"
            -> "transfer validation failed: amount must be positive"
      [] msg = "token address is required"
            -> "transfer validation failed: token address is required"
      [] msg = "sender address is required"
            -> "transfer validation failed: sender address is required"
      [] OTHER
            -> "transfer validation failed: recipient address is required"

\* TransferRepository.Create: the table after the call and the error returned.
\* The database evaluates the CHECK constraints of the new row before it
\* enters the row in the primary key index.
TransferRepository_Create(tbl, t) ==
    IF Validate(t) # NoError
        THEN [tbl |-> tbl, err |-> ValidationFailed(Validate(t))]
    ELSE IF CheckViolation(t)
        THEN [tbl |-> tbl, err |-> "failed to create transfer: check constraint"]
    ELSE IF PrimaryKeyViolation(tbl, t.id)
        THEN [tbl |-> tbl, err |-> DuplicateTransfer]
    ELSE [tbl |-> InsertRow(tbl, t), err |-> NoError]

\* TransferRepository.GetByID: the rows with this id (at most one is returned).
GetByID(tbl, id) == {r \in BagToSet(tbl) : r.id = id}

\* TransferRepository.UpdateStatus: UPDATE ... SET status WHERE id.
UpdateStatus(tbl, id, status) ==
    LET matching == GetByID(tbl, id)
    IN IF status \notin TransferStatus
           THEN [tbl |-> tbl, err |-> "failed to update transfer status"]
       ELSE IF RowCount(tbl, matching) = 0
           THEN [tbl |-> tbl, err |-> "transfer not found"]
       ELSE [tbl |-> UpdateWhere(tbl, matching, "status", status), err |-> NoError]

\* TransferRepository.UpdateDestinationTxHash
UpdateDestinationTxHash(tbl, id, txHash) ==
    LET matching == GetByID(tbl, id)
    IN IF RowCount(tbl, matching) = 0
           THEN [tbl |-> tbl, err |-> "transfer not found"]
       ELSE [tbl |-> UpdateWhere(tbl, matching, "destination_tx_hash", txHash),
             err |-> NoError]

\* TransferRepository.MarkForReview: the reason is not stored.
MarkForReview(tbl, id, reason) ==
    LET matching == GetByID(tbl, id)
    IN IF RowCount(tbl, matching) = 0
           THEN [tbl |-> tbl, err |-> "transfer not found"]
       ELSE [tbl |-> UpdateWhere(tbl, matching, "status", StatusUnderReview),
             err |-> NoError]

\* StateManager.IsTransferProcessed
IsTransferProcessed_CompletedOnly(tbl, id) ==
    \E r \in GetByID(tbl, id) : r.status = StatusCompleted

IsTransferProcessed(tbl, id) ==
    \E r \in GetByID(tbl, id) : r.status \in {StatusCompleted, StatusFailed}

----------------------------------------------------------------------------
(* StateManager calls on the transfers table, by any caller *)

\* arg: the relayer address (RecordSignature), the destination hash
\* (MarkTransferComplete), the event's transaction hash (ValidateEvent) or
\* the result (IsTransferProcessed) of the call, "" for the other calls.
Returned(op, id, arg, err) == [op |-> op, id |-> id, arg |-> arg, err |-> err]

RecordTransfer(t) ==
    LET res == TransferRepository_Create(transfers, t) IN
    /\ transfers' = res.tbl
    /\ lastCall' = Returned("RecordTransfer", t.id, "", res.err)
    /\ UNCHANGED <<signatures, completing, coordVars, collectVars, chainVars, watchVars,
                   otherVars>>

UpdateTransferStatus(id, status) ==
    LET res == UpdateStatus(transfers, id, status) IN
    /\ transfers' = res.tbl
    /\ lastCall' = Returned("UpdateTransferStatus", id, "", res.err)
    /\ UNCHANGED <<signatures, completing, coordVars, collectVars, chainVars, watchVars,
                   otherVars>>

\* MarkTransferComplete, first statement: UpdateDestinationTxHash.  An error
\* returns at once; otherwise the call goes on to its second statement.
MarkTransferComplete_Hash(id, txHash) ==
    LET res == UpdateDestinationTxHash(transfers, id, txHash) IN
    /\ [id |-> id, hash |-> txHash] \notin completing
    /\ transfers' = res.tbl
    /\ IF res.err = NoError
          THEN /\ completing' = completing \cup {[id |-> id, hash |-> txHash]}
               /\ UNCHANGED lastCall
          ELSE /\ lastCall' = Returned("MarkTransferComplete", id, txHash,
                                       "failed to update destination tx hash")
               /\ UNCHANGED completing
    /\ UNCHANGED <<signatures, coordVars, collectVars, chainVars, watchVars,
                   otherVars>>

\* MarkTransferComplete, second statement: UpdateStatus(completed).
MarkTransferComplete_Status(c) ==
    LET res == UpdateStatus(transfers, c.id, StatusCompleted) IN
    /\ c \in completing
    /\ transfers' = res.tbl
    /\ completing' = completing \ {c}
    /\ lastCall' = Returned("MarkTransferComplete", c.id, c.hash, res.err)
    /\ UNCHANGED <<signatures, coordVars, collectVars, chainVars, watchVars,
                   otherVars>>

MarkTransferForReview(id, reason) ==
    LET res == MarkForReview(transfers, id, reason) IN
    /\ transfers' = res.tbl
    /\ lastCall' = Returned("MarkTransferForReview", id, "", res.err)
    /\ UNCHANGED <<signatures, completing, coordVars, collectVars, chainVars, watchVars,
                   otherVars>>

\* StateManager.IsTransferProcessed, called by any caller; the call returns
\* its result ("true" or "false") and no error.
IsTransferProcessedCall(id) ==
    /\ lastCall' = Returned("IsTransferProcessed", id,
                            IF IsTransferProcessed(transfers, id) THEN "true" ELSE "false",
                            NoError)
    /\ UNCHANGED <<transfers, signatures, completing, coordVars, collectVars,
                   chainVars, watchVars,
                   otherVars>>

----------------------------------------------------------------------------
(* Table signatures *)

\* Deployment configuration: SIGNATURE_THRESHOLD (of RELAYER_COUNT = 3 relayers).
SignatureThreshold == 2

\* The authorized relayer set (rows of relayer_config with is_active), and an
\* address outside it.
AuthorizedRelayers == {"0xA", "0xB", "0xC"}
Outsider           == "0xX"
Relayers           == AuthorizedRelayers \cup {Outsider}

SigBytes == {"s1", "s2"}

\* The signatures handed to RecordSignature: any address with any bytes, and
\* the two malformed shapes Create refuses ("" is the empty value).
InputSignatures ==
    [relayer_address : Relayers, signature : SigBytes]
    \cup {[relayer_address |-> "", signature |-> "s1"],
          [relayer_address |-> "0xA", signature |-> ""]}

SignatureRow(transferID, sig) ==
    [transfer_id |-> transferID, relayer_address |-> sig.relayer_address,
     signature |-> sig.signature]

\* uq_signatures_transfer_relayer UNIQUE (transfer_id, relayer_address)
UniqueViolation_Off(sigs, transferID, relayer) == FALSE

UniqueViolation(sigs, transferID, relayer) ==
    \E r \in BagToSet(sigs) :
        r.transfer_id = transferID /\ r.relayer_address = relayer

\* signatures.transfer_id REFERENCES transfers(id)
ForeignKeyViolation(tbl, transferID) ==
    ~ \E r \in BagToSet(tbl) : r.id = transferID

DuplicateSignature == "failed to create signature: duplicate key"

\* The errors of Create's own validation of the signature.
MalformedSignature == {"relayer address is required", "signature data is required"}

\* SignatureRepository.Create: the table after the call and the error returned.
SignatureRepository_Create(sigs, tbl, transferID, sig) ==
    IF sig.relayer_address = ""
        THEN [sigs |-> sigs, err |-> "relayer address is required"]
    ELSE IF sig.signature = ""
        THEN [sigs |-> sigs, err |-> "signature data is required"]
    ELSE IF UniqueViolation(sigs, transferID, sig.relayer_address)
        THEN [sigs |-> sigs, err |-> DuplicateSignature]
    ELSE IF ForeignKeyViolation(tbl, transferID)
        THEN [sigs |-> sigs, err |-> "failed to create signature: foreign key"]
    ELSE [sigs |-> InsertRow(sigs, SignatureRow(transferID, sig)), err |-> NoError]

\* SignatureRepository.CountByTransferID / StateManager.GetSignatureCount
GetSignatureCount(sigs, transferID) ==
    RowCount(sigs, {r \in BagToSet(sigs) : r.transfer_id = transferID})

\* SignatureRepository.GetByTransferID: the signers of the rows returned.
SignersOf(sigs, transferID) ==
    {r.relayer_address : r \in {x \in BagToSet(sigs) : x.transfer_id = transferID}}

\* SignatureRepository.HasSignature / StateManager.HasRelayerSigned
HasSignature(sigs, transferID, relayer) ==
    RowCount(sigs, {r \in BagToSet(sigs) :
                      r.transfer_id = transferID /\ r.relayer_address = relayer}) > 0

\* The threshold decision: the stored signature count against the configured
\* threshold.
ThresholdMet(sigs, transferID) ==
    GetSignatureCount(sigs, transferID) >= SignatureThreshold

\* StateManager.RecordSignature: the call's effect on the store.
RecordSignatureCall(transferID, sig) ==
    LET res == SignatureRepository_Create(signatures, transfers, transferID, sig) IN
    /\ signatures' = res.sigs
    /\ lastCall' = Returned("RecordSignature", transferID, sig.relayer_address, res.err)

\* StateManager.RecordSignature, called by any caller.
RecordSignature(transferID, sig) ==
    /\ RecordSignatureCall(transferID, sig)
    /\ UNCHANGED <<transfers, completing, coordVars, collectVars, chainVars, watchVars,
                   otherVars>>

\* A DELETE that takes the transfer row along with its signatures.
DeleteByTransferID_WithTransfer(transferID) ==
    /\ signatures' =
         LET keep == {r \in BagToSet(signatures) : r.transfer_id # transferID}
         IN [r \in keep |-> signatures[r]]
    /\ transfers' =
         LET keep == BagToSet(transfers) \ GetByID(transfers, transferID)
         IN [r \in keep |-> transfers[r]]
    /\ lastCall' = Returned("DeleteByTransferID", transferID, "", NoError)
    /\ UNCHANGED <<completing, coordVars, collectVars, chainVars, watchVars,
                   otherVars>>

\* SignatureRepository.DeleteByTransferID
DeleteByTransferID(transferID) ==
    /\ signatures' =
         LET keep == {r \in BagToSet(signatures) : r.transfer_id # transferID}
         IN [r \in keep |-> signatures[r]]
    /\ lastCall' = Returned("DeleteByTransferID", transferID, "", NoError)
    /\ UNCHANGED <<transfers, completing, coordVars, collectVars, chainVars, watchVars,
                   otherVars>>

----------------------------------------------------------------------------
(* The source chain as the adapter's RPC client sees it *)

MaxHead == 3
Blocks  == 1..MaxHead

\* A block number has the hash "a" or "b" of the branch that is canonical, or
\* no block at all.
BlockHashes == {"a", "b"}
NoBlock     == "none"

\* ChainConfig of the watched chain.
BridgeContract        == "0xBridge"
RequiredConfirmations == 1

EventTypeLock   == "lock"
EventTypeUnlock == "unlock"

\* The transactions of the two branches.  A log has the emitting address, the
\* event it encodes and the transfer id of its topics; a log with too few
\* topics is not well-formed.
ChainTxs ==
    { [tx_hash |-> "0xs1", block_number |-> 1, block_hash |-> "a", status |-> 1,
       logs |-> {[address |-> BridgeContract, type |-> EventTypeLock,
                  transfer_id |-> "T1", wellFormed |-> TRUE]}],
      [tx_hash |-> "0xs2", block_number |-> 2, block_hash |-> "a", status |-> 1,
       logs |-> {[address |-> BridgeContract, type |-> EventTypeLock,
                  transfer_id |-> "T2", wellFormed |-> FALSE]}],
      [tx_hash |-> "0xs3", block_number |-> 2, block_hash |-> "b", status |-> 1,
       logs |-> {[address |-> BridgeContract, type |-> EventTypeLock,
                  transfer_id |-> "T2", wellFormed |-> TRUE]}],
      [tx_hash |-> "0xs4", block_number |-> 3, block_hash |-> "a", status |-> 1,
       logs |-> {[address |-> BridgeContract, type |-> EventTypeUnlock,
                  transfer_id |-> "T1", wellFormed |-> TRUE]}],
      [tx_hash |-> "0xs5", block_number |-> 1, block_hash |-> "b", status |-> 0,
       logs |-> {}],
      [tx_hash |-> "0xs6", block_number |-> 3, block_hash |-> "b", status |-> 1,
       logs |-> {[address |-> "0xOther", type |-> EventTypeLock,
                  transfer_id |-> "T2", wellFormed |-> TRUE]}] }

SourceTxs == {t.tx_hash : t \in ChainTxs}

\* The transactions of the canonical chain.
Canonical(chain) ==
    {t \in ChainTxs : t.block_number \in Blocks /\ chain[t.block_number] = t.block_hash}

\* client.TransactionReceipt: the receipt of a canonical transaction.
TransactionReceipt(chain, txHash) == {t \in Canonical(chain) : t.tx_hash = txHash}

\* client.FilterLogs with the filter of one event: the bridge contract's logs
\* of that event in blocks from..to, each with its transaction.
FilterLogs(chain, eventType, from, to) ==
    {p \in UNION {{t} \X t.logs : t \in Canonical(chain)} :
        /\ p[1].block_number >= from /\ p[1].block_number <= to
        /\ p[2].address = BridgeContract /\ p[2].type = eventType}

\* A new block extends the chain.
MineBlock(h) ==
    /\ head < MaxHead
    /\ head' = head + 1
    /\ hashAt' = [hashAt EXCEPT ![head + 1] = h]
    /\ UNCHANGED <<ledgerVars, signatures, coordVars, collectVars, watchVars,
                   otherVars>>

OtherBranch(h) == IF h = "a" THEN "b" ELSE "a"

\* A reorganization: the blocks from n on are replaced by another branch that
\* ends at newHead (at n - 1: the node lost the blocks and has no others yet).
Reorg(n, newHead) ==
    /\ n \in 1..head
    /\ newHead \in (n - 1)..head
    /\ head' = newHead
    /\ hashAt' = [b \in Blocks |->
                    IF b < n THEN hashAt[b]
                    ELSE IF b <= newHead THEN OtherBranch(hashAt[b])
                    ELSE NoBlock]
    /\ UNCHANGED <<ledgerVars, signatures, coordVars, collectVars, watchVars,
                   otherVars>>

----------------------------------------------------------------------------
(* EthereumAdapter: the event watcher and ValidateEvent *)

\* The keys of eventFilters.
EventFilters == {"TokensLocked", "TokensUnlocked"}

EventTypeOf(filter) ==
    IF filter = "TokensLocked" THEN EventTypeLock ELSE EventTypeUnlock

\* A bridge event as parseTokensLockedEvent / parseTokensUnlockedEvent build it.
Event(t, l) ==
    [type |-> l.type, tx_hash |-> t.tx_hash, block_number |-> t.block_number,
     transfer_id |-> l.transfer_id]

\* The Transfer carried by a lock event.
EventTransfer(e) ==
    LockTransfer(e.transfer_id)
        @@ [source_tx_hash |-> e.tx_hash, block_number |-> e.block_number]

ReorgDetected == "chain reorganization detected"

\* detectReorganization: an error only if no block is found at lastBlock.
detectReorganization(chain, lb) ==
    IF lb = 0 THEN NoError
    ELSE IF chain[lb] = NoBlock THEN "block not found, possible reorganization"
    ELSE NoError

\* The events one poll sends: for each filter whose query succeeded, the logs
\* that parse; a log that does not parse is printed and skipped.
PollEvents(chain, done, from, to) ==
    {Event(p[1], p[2]) :
        p \in {q \in UNION {FilterLogs(chain, EventTypeOf(f), from, to) : f \in done} :
                  q[2].wellFormed}}

\* fetchAndProcessEvents, one tick of pollEvents.  rpcOk: client.BlockNumber
\* succeeds; done: the filters queried before a FilterLogs call failed (all of
\* them if none failed; the map is ranged over in any order).
fetchAndProcessEvents(rpcOk, done) ==
    /\ IF ~rpcOk
          THEN /\ pollErr' = "failed to get current block number"
               /\ UNCHANGED <<lastBlock, seenHash, eventChan>>
       ELSE IF detectReorganization(hashAt, lastBlock) # NoError
          THEN /\ pollErr' = ReorgDetected
               /\ UNCHANGED <<lastBlock, seenHash, eventChan>>
       ELSE IF lastBlock + 1 > head
          THEN /\ pollErr' = NoError
               /\ UNCHANGED <<lastBlock, seenHash, eventChan>>
       ELSE /\ eventChan' = eventChan \cup PollEvents(hashAt, done, lastBlock + 1, head)
            /\ IF done = EventFilters
                  THEN /\ lastBlock' = head
                       /\ seenHash' = hashAt[head]
                       /\ pollErr' = NoError
                  ELSE /\ pollErr' = "failed to filter logs"
                       /\ UNCHANGED <<lastBlock, seenHash>>
    /\ UNCHANGED <<ledgerVars, signatures, coordVars, collectVars, chainVars,
                   otherVars>>

\* validateEventLog: the log's transaction hash against the event's.
validateEventLog(logTxHash, event) == logTxHash = event.tx_hash

\* EthereumAdapter.ValidateEvent
ValidateEvent(chain, event) ==
    LET receipts == TransactionReceipt(chain, event.tx_hash) IN
    IF receipts = {} THEN "failed to get transaction receipt"
    ELSE LET receipt == CHOOSE r \in receipts : TRUE IN
         IF receipt.status # 1 THEN "transaction failed"
         ELSE IF receipt.block_number # event.block_number
             THEN "block number mismatch"
         ELSE IF \E log \in receipt.logs :
                    /\ log.address = BridgeContract
                    /\ validateEventLog(receipt.tx_hash, event)
             THEN NoError
         ELSE "event not found in transaction logs"

----------------------------------------------------------------------------
Coordinators == {"c1", "c2"}

InitLedger ==
    /\ transfers = EmptyBag
    /\ lastCall = Returned("none", "", "", NoError)
    /\ completing = {}

InitIdle ==
    /\ signatures = EmptyBag
    /\ pc = [c \in Coordinators |-> "idle"]
    /\ cur = [c \in Coordinators |-> ""]
    /\ destTx = [c \in Coordinators |-> ""]
    /\ sent = [t \in TransferIds |-> 0]
    /\ finished = [t \in TransferIds |-> 0]
    /\ batch = EmptyBag
    /\ offered = EmptyBag

\* The adapter connected to a chain without blocks; nothing polled yet.
InitWatch ==
    /\ head = 0
    /\ hashAt = [b \in Blocks |-> NoBlock]
    /\ lastBlock = 0
    /\ seenHash = NoBlock
    /\ eventChan = {}
    /\ pollErr = NoError

\* The adapter as NewEthereumAdapter leaves it.
InitAdapter ==
    adapter = [connected |-> FALSE, chain_id |-> 0, client |-> "none"]

\* No bridge contract under call.
InitNoContract ==
    /\ contract = "none"
    /\ prepared = <<>>

\* No Cosmos bridge is set up.
InitNoCosmos ==
    /\ cosmos = [impl |-> "none"]
    /\ cosmosCall = [fn |-> "none"]

\* No BigInt is in hand.
InitNoCodec ==
    codec = [pc |-> "none"]

\* No poll loop of the adapter has been started and nothing has been sent.
InitNoLoops ==
    /\ loops = [l \in {"l1", "l2"} |->
                    [pc |-> "stopped", from |-> 0, to |-> 0, todo |-> {},
                     pending |-> {}]]
    /\ sentBag = EmptyBag

InitLater == InitNoCosmos /\ InitNoCodec /\ InitNoLoops

\* Nothing submitted, no window over, no watcher goroutine started, no
\* bridge contract deployed.
InitOther ==
    /\ subPc = [t \in TransferIds |-> "idle"]
    /\ subNonce = [t \in TransferIds |-> 0]
    /\ handed = {}
    /\ mempool = {}
    /\ included = {}
    /\ destHead = 0
    /\ expired = [t \in TransferIds |-> FALSE]
    /\ ctxDone = FALSE
    /\ wpc = "stopped"
    /\ toSend = {}
    /\ pollTo = 0
    /\ reading = TRUE
    /\ bridge = [deployed |-> FALSE]
    /\ bridgeCall = [fn |-> "none"]

Init == InitLedger /\ InitIdle /\ InitWatch /\ InitOther /\ InitLater
          /\ InitAdapter /\ InitNoContract

Next ==
    \/ \E t \in InputTransfers : RecordTransfer(t)
    \/ \E id \in TransferIds, s \in TransferStatus : UpdateTransferStatus(id, s)
    \/ \E id \in TransferIds, h \in TxHashes : MarkTransferComplete_Hash(id, h)
    \/ \E c \in completing : MarkTransferComplete_Status(c)
    \/ \E id \in TransferIds : MarkTransferForReview(id, "reorg")

Spec == Init /\ [][Next]_vars

\* The transfers table under any sequence of calls that record, update and
\* query transfers (completions all with one destination hash).
NextRecord ==
    \/ \E t \in InputTransfers : RecordTransfer(t)
    \/ \E id \in TransferIds, s \in TransferStatus : UpdateTransferStatus(id, s)
    \/ \E id \in TransferIds : MarkTransferComplete_Hash(id, "0xd1")
    \/ \E c \in completing : MarkTransferComplete_Status(c)
    \/ \E id \in TransferIds : MarkTransferForReview(id, "reorg")
    \/ \E id \in TransferIds : IsTransferProcessedCall(id)

SpecRecord == Init /\ [][NextRecord]_vars

\* The signatures table under any sequence of calls by any caller.
NextSig ==
    \/ \E id \in TransferIds : RecordTransfer(LockTransfer(id))
    \/ \E id \in TransferIds, sig \in InputSignatures : RecordSignature(id, sig)
    \/ \E id \in TransferIds : DeleteByTransferID(id)

SpecSig == Init /\ [][NextSig]_vars

----------------------------------------------------------------------------
(* Signature collection: peers deliver a batch of signatures for transfer  *)
(* T1 in any order; each delivery is one RecordSignature call.             *)

MaxBatch == 3

RECURSIVE SeqToBag(_)
SeqToBag(q) ==
    IF q = <<>> THEN EmptyBag ELSE SetToBag({Head(q)}) (+) SeqToBag(Tail(q))

\* Every multiset of at most MaxBatch deliveries.
Batches ==
    {SeqToBag(q) : q \in UNION {[1..n -> InputSignatures] : n \in 0..MaxBatch}}

InitCollect ==
    /\ transfers = SetToBag({LockTransfer("T1")})
    /\ lastCall = Returned("RecordTransfer", "T1", "", NoError)
    /\ completing = {}
    /\ signatures = EmptyBag
    /\ pc = [c \in Coordinators |-> "idle"]
    /\ cur = [c \in Coordinators |-> ""]
    /\ destTx = [c \in Coordinators |-> ""]
    /\ sent = [t \in TransferIds |-> 0]
    /\ finished = [t \in TransferIds |-> 0]
    /\ batch \in Batches
    /\ offered = EmptyBag
    /\ InitWatch
    /\ InitOther /\ InitLater
    /\ InitAdapter
    /\ InitNoContract

\* A peer's delivery arrives: StateManager.RecordSignature("T1", d).
Deliver(d) ==
    /\ BagIn(d, batch)
    /\ batch' = batch (-) SetToBag({d})
    /\ offered' = offered (+) SetToBag({d})
    /\ RecordSignatureCall("T1", d)
    /\ UNCHANGED <<transfers, completing, coordVars, chainVars, watchVars,
                   otherVars>>

NextCollect == \E d \in InputSignatures : Deliver(d)

SpecCollect == InitCollect /\ [][NextCollect]_vars

----------------------------------------------------------------------------
(* The relayer pipeline of one transfer: event delivery, confirmation      *)
(* gate, signature collection, and coordinators that detect the threshold, *)
(* claim the transfer (Signed -> Executing), submit the destination        *)
(* transaction and complete the transfer.  Every step is one call of the   *)
(* store or of the chain adapter; a coordinator's reads and writes are     *)
(* separate statements, so other processes run between them.               *)

\* The hash of the transaction coordinator c sends.
TxHashOf(c) == IF c = "c1" THEN "0xd1" ELSE "0xd2"

StatusOf(tbl, id) == {r.status : r \in GetByID(tbl, id)}

\* The watcher surfaces the Lock event of t (again, on a duplicate poll).
EventDelivered(t) ==
    LET res == TransferRepository_Create(transfers, LockTransfer(t)) IN
    /\ transfers' = res.tbl
    /\ lastCall' = Returned("RecordTransfer", t, "", res.err)
    /\ UNCHANGED <<signatures, completing, coordVars, collectVars, chainVars, watchVars,
                   otherVars>>

\* The confirmation gate of t is satisfied: Pending -> Confirming.
ConfirmationGate(t) ==
    LET res == UpdateStatus(transfers, t, StatusConfirming) IN
    /\ StatusOf(transfers, t) = {StatusPending}
    /\ transfers' = res.tbl
    /\ lastCall' = Returned("UpdateTransferStatus", t, "", res.err)
    /\ UNCHANGED <<signatures, completing, coordVars, collectVars, chainVars, watchVars,
                   otherVars>>

\* An authorized relayer's signature for t arrives.
PeerSignature(t, a) ==
    /\ RecordSignatureCall(t, [relayer_address |-> a, signature |-> "s1"])
    /\ UNCHANGED <<transfers, completing, coordVars, collectVars, chainVars, watchVars,
                   otherVars>>

\* Coordinator c reads the status and the signature count of t and finds the
\* threshold met on a transfer that awaits signing or submission.
CoordDetect(c, t) ==
    /\ pc[c] = "idle"
    /\ StatusOf(transfers, t) \subseteq {StatusConfirming, StatusSigned}
    /\ StatusOf(transfers, t) # {}
    /\ ThresholdMet(signatures, t)
    /\ pc' = [pc EXCEPT ![c] = "detected"]
    /\ cur' = [cur EXCEPT ![c] = t]
    /\ UNCHANGED <<transfers, signatures, lastCall, completing, destTx, sent,
                   finished, collectVars, chainVars, watchVars,
                   otherVars>>

\* Coordinator c records the threshold: UpdateTransferStatus(t, Signed).
CoordMarkSigned(c) ==
    LET res == UpdateStatus(transfers, cur[c], StatusSigned) IN
    /\ pc[c] = "detected"
    /\ transfers' = res.tbl
    /\ lastCall' = Returned("UpdateTransferStatus", cur[c], "", res.err)
    /\ pc' = [pc EXCEPT ![c] = IF res.err = NoError THEN "claim" ELSE "aborted"]
    /\ UNCHANGED <<signatures, completing, cur, destTx, sent, finished, collectVars, chainVars, watchVars,
                   otherVars>>

\* Coordinator c attempts Signed -> Executing: UpdateTransferStatus(t,
\* Executing).  It goes on to submit if the call returns nil and aborts
\* otherwise.
CoordClaim(c) ==
    LET res == UpdateStatus(transfers, cur[c], StatusExecuting) IN
    /\ pc[c] = "claim"
    /\ transfers' = res.tbl
    /\ lastCall' = Returned("UpdateTransferStatus", cur[c], "", res.err)
    /\ pc' = [pc EXCEPT ![c] = IF res.err = NoError THEN "submit" ELSE "aborted"]
    /\ UNCHANGED <<signatures, completing, cur, destTx, sent, finished, collectVars, chainVars, watchVars,
                   otherVars>>

\* EthereumAdapter.SubmitTransaction: the signed transaction is sent.  (A
\* send that fails returns an error and leaves the coordinator here.)
CoordSubmit(c) ==
    /\ pc[c] = "submit"
    /\ sent' = [sent EXCEPT ![cur[c]] = @ + 1]
    /\ destTx' = [destTx EXCEPT ![c] = TxHashOf(c)]
    /\ pc' = [pc EXCEPT ![c] = "complete"]
    /\ UNCHANGED <<transfers, signatures, lastCall, completing, cur, finished,
                   collectVars, chainVars, watchVars,
                   otherVars>>

\* MarkTransferComplete(t, hash), first statement.
CoordComplete_Hash(c) ==
    LET res == UpdateDestinationTxHash(transfers, cur[c], destTx[c]) IN
    /\ pc[c] = "complete"
    /\ transfers' = res.tbl
    /\ pc' = [pc EXCEPT ![c] = IF res.err = NoError THEN "complete2" ELSE "aborted"]
    /\ UNCHANGED <<signatures, lastCall, completing, cur, destTx, sent, finished,
                   collectVars, chainVars, watchVars,
                   otherVars>>

\* MarkTransferComplete(t, hash), second statement; the call returns.
CoordComplete_Status(c) ==
    LET res == UpdateStatus(transfers, cur[c], StatusCompleted) IN
    /\ pc[c] = "complete2"
    /\ transfers' = res.tbl
    /\ lastCall' = Returned("MarkTransferComplete", cur[c], destTx[c], res.err)
    /\ finished' = [finished EXCEPT ![cur[c]] =
                        IF res.err = NoError THEN @ + 1 ELSE @]
    /\ pc' = [pc EXCEPT ![c] = "done"]
    /\ UNCHANGED <<signatures, completing, cur, destTx, sent, collectVars, chainVars, watchVars,
                   otherVars>>

NextPipeline ==
    \/ \E t \in TransferIds : EventDelivered(t)
    \/ \E t \in TransferIds : ConfirmationGate(t)
    \/ \E t \in TransferIds, a \in AuthorizedRelayers : PeerSignature(t, a)
    \/ \E c \in Coordinators, t \in TransferIds : CoordDetect(c, t)
    \/ \E c \in Coordinators : CoordMarkSigned(c)
    \/ \E c \in Coordinators : CoordClaim(c)
    \/ \E c \in Coordinators : CoordSubmit(c)
    \/ \E c \in Coordinators : CoordComplete_Hash(c)
    \/ \E c \in Coordinators : CoordComplete_Status(c)

SpecPipeline == Init /\ [][NextPipeline]_vars

----------------------------------------------------------------------------
(* ValidateEvent called with any event, on a chain that grows and          *)
(* reorganizes, next to the calls that record transfers and set statuses.  *)

\* The events handed to ValidateEvent: any transaction hash (one of them
\* unknown to the chain) with any block number and any transfer id.
InputEvents ==
    [type : {EventTypeLock}, tx_hash : SourceTxs \cup {"0xs0"},
     block_number : Blocks, transfer_id : TransferIds]

ValidateEventCall(e) ==
    /\ lastCall' = Returned("ValidateEvent", e.transfer_id, e.tx_hash,
                            ValidateEvent(hashAt, e))
    /\ UNCHANGED <<transfers, signatures, completing, coordVars, collectVars,
                   chainVars, watchVars,
                   otherVars>>

NextValidate ==
    \/ \E h \in BlockHashes : MineBlock(h)
    \/ \E n \in Blocks, newHead \in 0..MaxHead : Reorg(n, newHead)
    \/ \E id \in TransferIds : RecordTransfer(LockTransfer(id))
    \/ \E id \in TransferIds, s \in TransferStatus : UpdateTransferStatus(id, s)
    \/ \E e \in InputEvents : ValidateEventCall(e)

SpecValidate == Init /\ [][NextValidate]_vars

----------------------------------------------------------------------------
(* The watcher on a chain that grows and reorganizes, and the consumer of  *)
(* its event channel: each lock event is validated and recorded, and the   *)
(* recorded transfer advances through the pipeline to completion.          *)

\* The consumer takes a lock event from the channel: ValidateEvent, then
\* RecordTransfer of the event's transfer.
HandleEvent(e) ==
    LET v   == ValidateEvent(hashAt, e)
        res == TransferRepository_Create(transfers, EventTransfer(e))
    IN /\ e \in eventChan
       /\ e.type = EventTypeLock
       /\ IF v # NoError
             THEN /\ lastCall' = Returned("ValidateEvent", e.transfer_id, e.tx_hash, v)
                  /\ UNCHANGED transfers
             ELSE /\ transfers' = res.tbl
                  /\ lastCall' = Returned("RecordTransfer", e.transfer_id, "", res.err)
       /\ UNCHANGED <<signatures, completing, coordVars, collectVars, chainVars,
                      watchVars,
                   otherVars>>

NextStatus(s) ==
    CASE s = StatusPending    -> StatusConfirming
      [] s = StatusConfirming -> StatusSigned
      [] OTHER                -> StatusExecuting

\* The pipeline moves a transfer one status on: UpdateTransferStatus.
Advance(id) ==
    /\ StatusOf(transfers, id) \subseteq {StatusPending, StatusConfirming, StatusSigned}
    /\ \E s \in StatusOf(transfers, id) : UpdateTransferStatus(id, NextStatus(s))

\* The executor's submission of an executing transfer is confirmed:
\* MarkTransferComplete, first statement.
Complete(id) ==
    /\ StatusOf(transfers, id) = {StatusExecuting}
    /\ MarkTransferComplete_Hash(id, "0xd1")

NextWatch ==
    \/ \E h \in BlockHashes : MineBlock(h)
    \/ \E n \in Blocks, newHead \in 0..MaxHead : Reorg(n, newHead)
    \/ \E rpcOk \in BOOLEAN, done \in SUBSET EventFilters :
          fetchAndProcessEvents(rpcOk, done)
    \/ \E e \in eventChan : HandleEvent(e)
    \/ \E id \in TransferIds : Advance(id)
    \/ \E id \in TransferIds : Complete(id)
    \/ \E c \in completing : MarkTransferComplete_Status(c)

SpecWatch == Init /\ [][NextWatch]_vars

----------------------------------------------------------------------------
(* EthereumAdapter.SubmitTransaction on the destination chain, called
   concurrently for the executing transfers from one submitting account *)

MaxDestHead == 2

\* signedTx.Hash() of the destination transaction that releases transfer t.
DestTxHashOf(t) == IF t = "T1" THEN "0xd1" ELSE "0xd2"

\* types.NewTransaction(nonce, to, value, gasLimit, gasPrice, data), signed.
DestTx(t, nonce) == [hash |-> DestTxHashOf(t), nonce |-> nonce, transfer |-> t]

\* getNonce: client.PendingNonceAt(address), the account's next nonce in the
\* node's pending state.
PendingNonceAt(pool, mined) ==
    Cardinality({x.nonce : x \in pool} \cup {x.nonce : x \in mined})

\* SubmitTransaction for transfer t, up to its nonce: e.getNonce(ctx).
SubmitGetNonce(t) ==
    /\ subPc[t] = "idle"
    /\ StatusOf(transfers, t) = {StatusExecuting}
    /\ subNonce' = [subNonce EXCEPT ![t] = PendingNonceAt(mempool, included)]
    /\ subPc' = [subPc EXCEPT ![t] = "nonce"]
    /\ UNCHANGED <<ledgerVars, signatures, coordVars, collectVars, chainVars,
                   watchVars, handed, mempool, included, destHead, expired,
                   cancelVars, adapter, bridgeVars,
                   laterVars>>

\* SubmitTransaction for transfer t, the rest: the transaction is built with
\* the nonce read before, signed and handed to client.SendTransaction.  The
\* node refuses a nonce that is already mined; a nonce that is pending is
\* replaced when the new gas price is high enough (replace), refused
\* otherwise.  A refusal returns "failed to send transaction".
SubmitSend(t, replace) ==
    LET tx == DestTx(t, subNonce[t])
        minedNonce == \E x \in included : x.nonce = tx.nonce
        pending    == {x \in mempool : x.nonce = tx.nonce}
        accepted   == ~minedNonce /\ (pending = {} \/ replace)
    IN  /\ subPc[t] = "nonce"
        /\ handed' = handed \cup {tx}
        /\ mempool' = IF accepted THEN (mempool \ pending) \cup {tx} ELSE mempool
        /\ subPc' = [subPc EXCEPT ![t] = IF accepted THEN "sent" ELSE "failed"]
        /\ UNCHANGED <<ledgerVars, signatures, coordVars, collectVars,
                       chainVars, watchVars, subNonce, included, destHead,
                       expired, cancelVars, adapter, bridgeVars,
                   laterVars>>

\* The destination chain mines a block that holds the pending transactions.
MineDest ==
    /\ destHead < MaxDestHead
    /\ destHead' = destHead + 1
    /\ included' = included \cup
                     {[hash |-> x.hash, nonce |-> x.nonce,
                       transfer |-> x.transfer, block |-> destHead + 1] :
                        x \in mempool}
    /\ mempool' = {}
    /\ UNCHANGED <<ledgerVars, signatures, coordVars, collectVars, chainVars,
                   watchVars, subPc, subNonce, handed, expired, cancelVars,
                   adapter, bridgeVars,
                   laterVars>>

\* GetBlockConfirmations(txHash): currentBlock - receipt.BlockNumber + 1, an
\* error while the transaction has no receipt.
GetBlockConfirmations(mined, currentBlock, txHash) ==
    LET receipts == {x \in mined : x.hash = txHash} IN
    IF receipts = {}
       THEN [n |-> 0, err |-> "failed to get transaction receipt"]
       ELSE LET receipt == CHOOSE x \in receipts : TRUE IN
            [n   |-> IF currentBlock < receipt.block
                        THEN 0 ELSE currentBlock - receipt.block + 1,
             err |-> NoError]

\* The executor of transfer t, after SubmitTransaction returned a TxResult
\* and no error: MarkTransferComplete(t, TxHash), first statement.
ExecutorComplete(t) ==
    /\ subPc[t] = "sent"
    /\ StatusOf(transfers, t) = {StatusExecuting}
    /\ MarkTransferComplete_Hash(t, DestTxHashOf(t))

NextSubmit ==
    \/ \E t \in TransferIds : EventDelivered(t)
    \/ \E id \in TransferIds : Advance(id)
    \/ \E t \in TransferIds : SubmitGetNonce(t)
    \/ \E t \in TransferIds, replace \in BOOLEAN : SubmitSend(t, replace)
    \/ MineDest
    \/ \E t \in TransferIds : ExecutorComplete(t)
    \/ \E c \in completing : MarkTransferComplete_Status(c)

SpecSubmit == Init /\ [][NextSubmit]_vars

----------------------------------------------------------------------------
(* Signature collection with a collection window: the store calls the
   repository offers while a transfer waits for signatures *)

\* The collection window of transfer t, which waits for signatures, is over.
\* No timer, configuration value or handler for it exists in the code: the
\* step changes nothing but the fact that the time has passed.
WindowExpires(t) ==
    /\ StatusOf(transfers, t) = {StatusConfirming}
    /\ ~expired[t]
    /\ expired' = [expired EXCEPT ![t] = TRUE]
    /\ UNCHANGED <<ledgerVars, signatures, coordVars, collectVars, chainVars,
                   watchVars, execVars, cancelVars, adapter, bridgeVars,
                   laterVars>>

NextWindow ==
    \/ \E t \in TransferIds : EventDelivered(t)
    \/ \E t \in TransferIds : ConfirmationGate(t)
    \/ \E t \in TransferIds, a \in AuthorizedRelayers : PeerSignature(t, a)
    \/ \E t \in TransferIds : WindowExpires(t)

SpecWindow == Init /\ [][NextWindow]_vars

\* Every step that can be taken is eventually taken.
FairSpecWindow == SpecWindow /\ WF_vars(NextWindow)

----------------------------------------------------------------------------
(* The pollEvents goroutine step by step, with the context that cancels it
   and a consumer that may stop receiving *)

ContextCanceled == "context canceled"

\* A connected adapter that has not polled yet.
InitCancel ==
    /\ InitLedger /\ InitIdle /\ InitWatch /\ InitOther /\ InitLater
    /\ InitNoContract
    /\ adapter = [connected |-> TRUE, chain_id |-> ChainEthereum,
                  client |-> "rpcEth"]

\* ListenForEvents with a fresh context and a consumer that receives: the
\* pollEvents goroutine starts.
ListenForEvents ==
    /\ adapter.connected
    /\ wpc = "stopped"
    /\ wpc' = "select"
    /\ ctxDone' = FALSE
    /\ reading' = TRUE
    /\ UNCHANGED <<ledgerVars, signatures, coordVars, collectVars, chainVars,
                   watchVars, execVars, expired, toSend, pollTo, adapter,
                   bridgeVars,
                   laterVars>>

\* The caller cancels the context.
Cancel ==
    /\ wpc # "stopped"
    /\ ~ctxDone
    /\ ctxDone' = TRUE
    /\ UNCHANGED <<ledgerVars, signatures, coordVars, collectVars, chainVars,
                   watchVars, execVars, expired, wpc, toSend, pollTo, reading,
                   adapter, bridgeVars,
                   laterVars>>

\* The consumer stops receiving from the event channel.
ConsumerStops ==
    /\ wpc # "stopped"
    /\ reading
    /\ reading' = FALSE
    /\ UNCHANGED <<ledgerVars, signatures, coordVars, collectVars, chainVars,
                   watchVars, execVars, expired, ctxDone, wpc, toSend, pollTo,
                   adapter, bridgeVars,
                   laterVars>>

\* pollEvents, case <-ctx.Done(): the goroutine returns.
PollLoopExit ==
    /\ wpc = "select"
    /\ ctxDone
    /\ wpc' = "stopped"
    /\ UNCHANGED <<ledgerVars, signatures, coordVars, collectVars, chainVars,
                   watchVars, execVars, expired, ctxDone, toSend, pollTo,
                   reading, adapter, bridgeVars,
                   laterVars>>

\* pollEvents, case <-ticker.C: fetchAndProcessEvents up to the logs of the
\* filters.  Every RPC call fails on a cancelled context; rpcOk: the calls
\* succeed otherwise.
PollTick(rpcOk) ==
    /\ wpc = "select"
    /\ IF ctxDone \/ ~rpcOk
          THEN /\ pollErr' = "failed to get current block number"
               /\ UNCHANGED <<wpc, toSend, pollTo>>
       ELSE IF detectReorganization(hashAt, lastBlock) # NoError
          THEN /\ pollErr' = ReorgDetected
               /\ UNCHANGED <<wpc, toSend, pollTo>>
       ELSE IF lastBlock + 1 > head
          THEN /\ pollErr' = NoError
               /\ UNCHANGED <<wpc, toSend, pollTo>>
       ELSE /\ toSend' = PollEvents(hashAt, EventFilters, lastBlock + 1, head)
            /\ pollTo' = head
            /\ wpc' = "sending"
            /\ UNCHANGED pollErr
    /\ UNCHANGED <<ledgerVars, signatures, coordVars, collectVars, chainVars,
                   lastBlock, seenHash, eventChan, execVars, expired, ctxDone,
                   reading, adapter, bridgeVars,
                   laterVars>>

\* select, case eventChan <- *event: the consumer receives the event.
PollSend(e) ==
    /\ wpc = "sending"
    /\ e \in toSend
    /\ reading
    /\ eventChan' = eventChan \cup {e}
    /\ toSend' = toSend \ {e}
    /\ UNCHANGED <<ledgerVars, signatures, coordVars, collectVars, chainVars,
                   lastBlock, seenHash, pollErr, execVars, expired, ctxDone,
                   wpc, pollTo, reading, adapter, bridgeVars,
                   laterVars>>

\* A poll that advances lastBlock also when it was interrupted.
LastBlockAfterSend_Always(lb, currentBlock, interrupted) == currentBlock

\* lastBlock when fetchAndProcessEvents leaves its send loop: the return on
\* ctx.Done() comes before the assignment e.lastBlock = currentBlock.
LastBlockAfterSend(lb, currentBlock, interrupted) ==
    IF interrupted THEN lb ELSE currentBlock

\* select, case <-ctx.Done(): fetchAndProcessEvents returns ctx.Err() with
\* events still to send; pollEvents prints the error and selects again.
PollSendCancelled ==
    /\ wpc = "sending"
    /\ toSend # {}
    /\ ctxDone
    /\ lastBlock' = LastBlockAfterSend(lastBlock, pollTo, TRUE)
    /\ pollErr' = ContextCanceled
    /\ toSend' = {}
    /\ wpc' = "select"
    /\ UNCHANGED <<ledgerVars, signatures, coordVars, collectVars, chainVars,
                   seenHash, eventChan, execVars, expired, ctxDone, pollTo,
                   reading, adapter, bridgeVars,
                   laterVars>>

\* Every event is sent: e.lastBlock = currentBlock, return nil.
PollDone ==
    /\ wpc = "sending"
    /\ toSend = {}
    /\ lastBlock' = LastBlockAfterSend(lastBlock, pollTo, FALSE)
    /\ seenHash' = hashAt[pollTo]
    /\ pollErr' = NoError
    /\ wpc' = "select"
    /\ UNCHANGED <<ledgerVars, signatures, coordVars, collectVars, chainVars,
                   eventChan, execVars, expired, ctxDone, toSend, pollTo,
                   reading, adapter, bridgeVars,
                   laterVars>>

NextCancel ==
    \/ \E h \in BlockHashes : MineBlock(h)
    \/ ListenForEvents
    \/ Cancel
    \/ ConsumerStops
    \/ \E rpcOk \in BOOLEAN : PollTick(rpcOk)
    \/ \E e \in toSend : PollSend(e)
    \/ PollSendCancelled
    \/ PollDone
    \/ PollLoopExit

SpecCancel == InitCancel /\ [][NextCancel]_vars

\* The goroutine is scheduled and a select with a ready case proceeds; Go
\* chooses among ready cases at random, so a case that stays ready is chosen.
FairSpecCancel ==
    /\ SpecCancel
    /\ WF_vars(PollLoopExit)
    /\ WF_vars(PollSendCancelled)
    /\ WF_vars(PollDone)

----------------------------------------------------------------------------
(* The whole store: every operation of the transfer and signature
   repositories that writes, called in any order by any caller *)

\* TransferRepository.UpdateConfirmations: an UPDATE of the confirmations
\* and updated_at columns, which are not among the columns kept here.
UpdateConfirmations(tbl, id, confirmations) ==
    IF RowCount(tbl, GetByID(tbl, id)) = 0
       THEN [tbl |-> tbl, err |-> "transfer not found"]
       ELSE [tbl |-> tbl, err |-> NoError]

\* StateManager.UpdateConfirmations
UpdateTransferConfirmations(id, confirmations) ==
    LET res == UpdateConfirmations(transfers, id, confirmations) IN
    /\ transfers' = res.tbl
    /\ lastCall' = Returned("UpdateConfirmations", id, "", res.err)
    /\ UNCHANGED <<signatures, completing, coordVars, collectVars, chainVars,
                   watchVars, otherVars>>

NextStore ==
    \/ NextRecord
    \/ \E id \in TransferIds, n \in 0..1 : UpdateTransferConfirmations(id, n)
    \/ \E id \in TransferIds :
          RecordSignature(id, [relayer_address |-> "0xA", signature |-> "s1"])
    \/ \E id \in TransferIds : DeleteByTransferID(id)

SpecStore == Init /\ [][NextStore]_vars

----------------------------------------------------------------------------
(* EthereumAdapter.Connect and Close *)

Endpoints == {"rpcEth", "rpcPoly"}

\* client.ChainID: the chain id the endpoint reports.
ReportedChainID(rpc) == IF rpc = "rpcEth" THEN ChainEthereum ELSE ChainPolygon

\* The chain configurations Connect is called with; valid: config.Validate()
\* returns no error.
ChainConfigs ==
    [chain_id : {ChainEthereum, ChainPolygon}, rpc : Endpoints, valid : BOOLEAN]

ChainName(chainID) == IF chainID = ChainEthereum THEN "1" ELSE "137"

\* A comparison that accepts every reported chain id.
ChainIDMatches_Any(reported, expected) == TRUE

\* chainID.Uint64() != uint64(config.ChainID), negated.
ChainIDMatches(reported, expected) == reported = expected

\* The error Connect returns.  dialOk: both DialContext calls succeed; idOk:
\* client.ChainID succeeds; headOk: client.BlockNumber succeeds.
ConnectError(config, dialOk, idOk, headOk) ==
    IF ~config.valid THEN "invalid chain config"
    ELSE IF ~dialOk THEN "failed to connect to Ethereum client"
    ELSE IF ~idOk THEN "failed to get chain ID"
    ELSE IF ~ChainIDMatches(ReportedChainID(config.rpc), config.chain_id)
        THEN "chain ID mismatch"
    ELSE IF ~headOk THEN "failed to get current block number"
    ELSE NoError

\* EthereumAdapter.Connect: the fields of the adapter are set only after
\* every check has passed.
Connect(config, dialOk, idOk, headOk) ==
    LET err == ConnectError(config, dialOk, idOk, headOk) IN
    /\ lastCall' = Returned("Connect", config.rpc, ChainName(config.chain_id), err)
    /\ IF err = NoError
          THEN /\ adapter' = [connected |-> TRUE, chain_id |-> config.chain_id,
                              client |-> config.rpc]
               /\ lastBlock' = head
               /\ seenHash' = IF head = 0 THEN NoBlock ELSE hashAt[head]
          ELSE UNCHANGED <<adapter, lastBlock, seenHash>>
    /\ UNCHANGED <<transfers, completing, signatures, coordVars, collectVars,
                   chainVars, eventChan, pollErr, execVars, expired,
                   cancelVars, bridgeVars,
                   laterVars>>

\* EthereumAdapter.Close
Close ==
    /\ adapter' = [adapter EXCEPT !.connected = FALSE]
    /\ lastCall' = Returned("Close", "", "", NoError)
    /\ UNCHANGED <<transfers, completing, signatures, coordVars, collectVars,
                   chainVars, watchVars, execVars, expired, cancelVars,
                   bridgeVars,
                   laterVars>>

NextConnect ==
    \/ \E h \in BlockHashes : MineBlock(h)
    \/ \E config \in ChainConfigs, dialOk \in BOOLEAN, idOk \in BOOLEAN,
          headOk \in BOOLEAN : Connect(config, dialOk, idOk, headOk)
    \/ Close

SpecConnect == Init /\ [][NextConnect]_vars

----------------------------------------------------------------------------
(* The bridge contracts: EthereumBridge.unlockTokens and
   PolygonBridge.mintTokens with their signature verification *)

Contracts == {"EthereumBridge", "PolygonBridge"}

MaxLocked == 2
MaxSigs   == 3

Success     == "success"
ZeroAddress == "0x0"

ReleaseFn(c) == IF c = "EthereumBridge" THEN "unlockTokens" ELSE "mintTokens"

\* block.chainid of the chain the contract is deployed on.
BlockChainID(c) == IF c = "EthereumBridge" THEN ChainEthereum ELSE ChainPolygon

\* originalChainId, an argument of mintTokens only.
OriginalChainID(c) == IF c = "EthereumBridge" THEN 0 ELSE ChainEthereum

\* keccak256(abi.encodePacked(transferId, token, [originalChainId,] amount,
\* recipient, block.chainid)): the message the relayers sign.
MessageHash(c, transferId, token, amount, recipient) ==
    [transferId |-> transferId, token |-> token,
     originalChainId |-> OriginalChainID(c), amount |-> amount,
     recipient |-> recipient, chainid |-> BlockChainID(c)]

\* A signature: who signed which message; k tells two signatures of one
\* signer over one message apart (their bytes differ).
SignatureOf(signer, message, k, length) ==
    [signer |-> signer, over |-> message, k |-> k, length |-> length]

\* The signatures a caller can put together for message m: relayers 0xA
\* (twice, with different bytes) and 0xB over m, the outsider 0xX over m,
\* and the signature of 0xA over the message of another transfer.
SignaturePool(m, other) ==
    {SignatureOf("0xA", m, 1, 65), SignatureOf("0xA", m, 2, 65),
     SignatureOf("0xB", m, 1, 65), SignatureOf(Outsider, m, 1, 65),
     SignatureOf("0xA", other, 1, 65)}

\* The signature arrays of a call: every array of at most MaxSigs signatures
\* of the pool, and two arrays that hold a signature of 64 bytes.
SignatureArrays(m, other) ==
    UNION {[1..n -> SignaturePool(m, other)] : n \in 0..MaxSigs}
    \cup {<<SignatureOf("0xA", m, 1, 64)>>,
          <<SignatureOf("0xA", m, 1, 65), SignatureOf("0xB", m, 1, 65),
            SignatureOf("0xA", m, 2, 64)>>}

\* ECDSA.recover: the signer for the message that was signed, an address
\* nobody holds for any other message.
recover(message, signature) ==
    IF signature.over = message THEN signature.signer ELSE "0xUnknown"

hasRole(roleMembers, account) == account \in roleMembers

\* A duplicate check that never finds the signer.
alreadySigned_Never(signers, signer) == FALSE

\* The inner loop of _verifySignatures over signers[0 .. validSignatures-1].
alreadySigned(signers, signer) ==
    \E j \in 1..Len(signers) : signers[j] = signer

\* The outer loop of _verifySignatures: the signers counted, or a revert on
\* a signature whose length is not 65.
RECURSIVE verifyLoop(_, _, _, _)
verifyLoop(sigs, message, relayers, signers) ==
    IF sigs = <<>> THEN [err |-> Success, signers |-> signers]
    ELSE IF Head(sigs).length # 65
        THEN [err |-> "InvalidSignatureLength", signers |-> signers]
    ELSE LET signer == recover(message, Head(sigs)) IN
         IF hasRole(relayers, signer) /\ ~alreadySigned(signers, signer)
            THEN verifyLoop(Tail(sigs), message, relayers, Append(signers, signer))
            ELSE verifyLoop(Tail(sigs), message, relayers, signers)

\* _verifySignatures
verifySignatures(b, message, sigs) ==
    LET res == verifyLoop(sigs, message, b.relayers, <<>>) IN
    IF res.err # Success THEN res.err
    ELSE IF Len(res.signers) < b.requiredSignatures
        THEN "InsufficientSignatures"
    ELSE Success

\* A replay guard that never finds the transfer.
isTransferProcessed_Never(b, transferId) == FALSE

\* processedTransfers[transferId]
isTransferProcessed(b, transferId) == transferId \in b.processedTransfers

\* The revert of unlockTokens, or Success: the modifiers, then the checks of
\* the body in their order.
unlockTokensError(b, call) ==
    IF b.paused THEN "EnforcedPause"
    ELSE IF isTransferProcessed(b, call.transferId) THEN "TransferAlreadyProcessed"
    ELSE IF call.token \notin b.supportedTokens THEN "TokenNotSupported"
    ELSE IF call.amount = 0 THEN "InsufficientAmount"
    ELSE IF call.recipient = ZeroAddress THEN "ZeroAddress"
    ELSE IF Len(call.signatures) < b.requiredSignatures THEN "InsufficientSignatures"
    ELSE IF b.pool < call.amount THEN "InsufficientLockedBalance"
    ELSE verifySignatures(b, MessageHash("EthereumBridge", call.transferId,
                                         call.token, call.amount, call.recipient),
                          call.signatures)

\* The revert of mintTokens, or Success.
mintTokensError(b, call) ==
    IF b.paused THEN "EnforcedPause"
    ELSE IF isTransferProcessed(b, call.transferId) THEN "TransferAlreadyProcessed"
    ELSE IF call.amount = 0 THEN "InsufficientAmount"
    ELSE IF call.recipient = ZeroAddress THEN "ZeroAddress"
    ELSE IF Len(call.signatures) < b.requiredSignatures THEN "InsufficientSignatures"
    ELSE IF call.token \notin b.supportedTokens THEN "TokenNotSupported"
    ELSE verifySignatures(b, MessageHash("PolygonBridge", call.transferId,
                                         call.token, call.amount, call.recipient),
                          call.signatures)

\* The calls of unlockTokens / mintTokens by a caller who holds the
\* signature array sigs.  For transfer T1: the well-formed arguments with
\* sigs and with the signatures of two relayers, and each ill-formed
\* argument with the signatures of two relayers.  For transfer T2: the
\* well-formed arguments with the signatures of two relayers, and of one.
ReleaseCalls(c, sigs) ==
    LET Msg(t) == MessageHash(c, t, "0xTok", 1, "0xRcp")
        Args(t, token, amount, recipient, given) ==
            [fn |-> ReleaseFn(c), transferId |-> t, token |-> token,
             amount |-> amount, recipient |-> recipient, signatures |-> given]
        TwoRelayers(m) ==
            <<SignatureOf("0xA", m, 1, 65), SignatureOf("0xB", m, 1, 65)>>
    IN  {Args("T1", "0xTok", 1, "0xRcp", sigs),
         Args("T1", "0xTok", 1, "0xRcp", TwoRelayers(Msg("T1"))),
         Args("T1", "0xBad", 1, "0xRcp",
              TwoRelayers(MessageHash(c, "T1", "0xBad", 1, "0xRcp"))),
         Args("T1", "0xTok", 0, "0xRcp",
              TwoRelayers(MessageHash(c, "T1", "0xTok", 0, "0xRcp"))),
         Args("T1", "0xTok", 1, ZeroAddress,
              TwoRelayers(MessageHash(c, "T1", "0xTok", 1, ZeroAddress))),
         Args("T2", "0xTok", 1, "0xRcp", TwoRelayers(Msg("T2"))),
         Args("T2", "0xTok", 1, "0xRcp",
              <<SignatureOf("0xA", Msg("T2"), 1, 65)>>)}

\* A contract to deploy and a caller who holds any signature array for
\* transfer T1.
InitBridge ==
    /\ InitLedger /\ InitIdle /\ InitWatch /\ InitOther /\ InitLater
    /\ InitAdapter
    /\ contract \in Contracts
    /\ prepared \in SignatureArrays(
                       MessageHash(contract, "T1", "0xTok", 1, "0xRcp"),
                       MessageHash(contract, "T2", "0xTok", 1, "0xRcp"))

\* The constructor with the relayers and the threshold of the deployment,
\* followed by the registration of the bridged token.
Deploy ==
    /\ ~bridge.deployed
    /\ bridge' = [deployed |-> TRUE, paused |-> FALSE,
                  relayers |-> AuthorizedRelayers,
                  requiredSignatures |-> SignatureThreshold,
                  supportedTokens |-> {"0xTok"},
                  processedTransfers |-> {},
                  pool |-> 0, paid |-> 0,
                  released |-> [t \in TransferIds |-> 0]]
    /\ bridgeCall' = [fn |-> "constructor"]
    /\ UNCHANGED <<ledgerVars, signatures, coordVars, collectVars, chainVars,
                   watchVars, execVars, expired, cancelVars, adapter,
                   contract, prepared,
                   laterVars>>

\* EthereumBridge.lockTokens of one token: lockedBalances[token] += amount.
LockTokens ==
    /\ bridge.deployed
    /\ contract = "EthereumBridge"
    /\ bridge.pool + bridge.paid < MaxLocked
    /\ bridge' = IF bridge.paused THEN bridge
                 ELSE [bridge EXCEPT !.pool = @ + 1]
    /\ bridgeCall' = [fn |-> "lockTokens",
                      err |-> IF bridge.paused THEN "EnforcedPause" ELSE Success]
    /\ UNCHANGED <<ledgerVars, signatures, coordVars, collectVars, chainVars,
                   watchVars, execVars, expired, cancelVars, adapter, contract,
                   prepared,
                   laterVars>>

\* unlockTokens / mintTokens: a revert changes nothing; otherwise the
\* transfer is marked processed, the locked balance goes down (the minted
\* total goes up), the recipient is paid and the event is emitted.
Release(call) ==
    LET err == IF contract = "EthereumBridge"
                  THEN unlockTokensError(bridge, call)
                  ELSE mintTokensError(bridge, call)
    IN  /\ bridge.deployed
        /\ bridgeCall' = [fn |-> call.fn, transferId |-> call.transferId,
                          token |-> call.token, amount |-> call.amount,
                          recipient |-> call.recipient,
                          signatures |-> call.signatures, err |-> err]
        /\ bridge' =
             IF err # Success THEN bridge
             ELSE [bridge EXCEPT
                     !.processedTransfers = @ \cup {call.transferId},
                     !.pool = IF contract = "EthereumBridge"
                                 THEN @ - call.amount ELSE @ + call.amount,
                     !.paid = @ + call.amount,
                     !.released[call.transferId] = @ + 1]
        /\ UNCHANGED <<ledgerVars, signatures, coordVars, collectVars,
                       chainVars, watchVars, execVars, expired, cancelVars,
                       adapter, contract, prepared,
                   laterVars>>

\* pause / unpause, by the admin.
SetPaused(p) ==
    /\ bridge.deployed
    /\ bridge.paused # p
    /\ bridge' = [bridge EXCEPT !.paused = p]
    /\ bridgeCall' = [fn |-> IF p THEN "pause" ELSE "unpause"]
    /\ UNCHANGED <<ledgerVars, signatures, coordVars, collectVars, chainVars,
                   watchVars, execVars, expired, cancelVars, adapter, contract,
                   prepared,
                   laterVars>>

\* removeRelayer / addRelayer of relayer 0xB, by the admin.
SetRelayer(member) ==
    /\ bridge.deployed
    /\ ("0xB" \in bridge.relayers) # member
    /\ bridge' = [bridge EXCEPT
                    !.relayers = IF member THEN @ \cup {"0xB"} ELSE @ \ {"0xB"}]
    /\ bridgeCall' = [fn |-> IF member THEN "addRelayer" ELSE "removeRelayer"]
    /\ UNCHANGED <<ledgerVars, signatures, coordVars, collectVars, chainVars,
                   watchVars, execVars, expired, cancelVars, adapter, contract,
                   prepared,
                   laterVars>>

NextBridge ==
    \/ Deploy
    \/ LockTokens
    \/ \E call \in ReleaseCalls(contract, prepared) : Release(call)
    \/ \E p \in BOOLEAN : SetPaused(p)
    \/ \E member \in BOOLEAN : SetRelayer(member)

SpecBridge == InitBridge /\ [][NextBridge]_vars

-----------------------------------------------------------------------------
(* The Cosmos bridge.  LockTokens and UnlockTokens exist twice: as methods *)
(* of the in-memory CosmosBridge and as handlers of the module's msgServer *)
(* over the keeper's store and the bank.  Init chooses the                 *)
(* implementation; both keep transfer records by transferID.               *)

TransferStatusLocked    == "locked"
TransferStatusUnlocked  == "unlocked"
TransferStatusCompleted == "completed"

CosmosSignatureThreshold == 2

CosmosImpls == {"bridge", "keeper"}

\* Addresses that sdk.AccAddressFromBech32 accepts, and one it does not.
Bech32Addresses == {"cosmos1s", "cosmos1r1", "cosmos1r2", "cosmos1x"}
CosmosAddresses == Bech32Addresses \cup {"notbech32"}
AccAddressFromBech32(address) ==
    IF address \in Bech32Addresses THEN NoError ELSE "invalid address"

ModuleAccount == "module"
CosmosAccounts == Bech32Addresses \cup {ModuleAccount}

\* The registry holds one enabled token and one disabled token.
MinTransfer == 1
MaxTransfer == 2
TokenRegistry == {"uatom", "uold"}
EnabledTokens == {"uatom"}
CosmosDenoms == {"uatom", "uold", "ufoo"}
CosmosAmounts == 0..(MaxTransfer + 1)
CosmosFunds == 3

NoRecord == [status |-> "none"]

GetTransferRecord_NotFound(c, transferID) == NoRecord

\* Keeper.GetTransferRecord and the map lookup of CosmosBridge.
GetTransferRecord(c, transferID) == c.transferRecords[transferID]

\* A signature string: made by a signer over a transfer, or no signature
\* at all.
CosmosSignature(signer, transferID) == [by |-> signer, over |-> transferID]
JunkSignature == [by |-> "nobody", over |-> "nothing"]
CosmosSignaturePool ==
    {CosmosSignature(s, "T1") : s \in {"cosmos1r1", "cosmos1r2"}}
        \cup {JunkSignature}
CosmosSignatureLists ==
    UNION {[1..n -> CosmosSignaturePool] : n \in 0..CosmosSignatureThreshold}

\* MsgLockTokens.ValidateBasic; the amount strings of the messages drawn
\* here are all decimal numbers, so NewIntFromString never refuses one.
MsgLockTokens_ValidateBasic(msg) ==
    IF AccAddressFromBech32(msg.sender) # NoError
        THEN "invalid sender address"
    ELSE IF msg.denom = "" THEN "denom cannot be empty"
    ELSE IF msg.amount <= 0 THEN "amount must be positive"
    ELSE IF msg.destinationChain = 0 THEN "destination chain cannot be zero"
    ELSE IF msg.recipient = "" THEN "recipient cannot be empty"
    ELSE IF msg.transferID = "" THEN "transfer ID cannot be empty"
    ELSE NoError

\* MsgUnlockTokens.ValidateBasic.
MsgUnlockTokens_ValidateBasic(msg) ==
    IF AccAddressFromBech32(msg.relayer) # NoError
        THEN "invalid relayer address"
    ELSE IF msg.transferID = "" THEN "transfer ID cannot be empty"
    ELSE IF msg.denom = "" THEN "denom cannot be empty"
    ELSE IF msg.amount <= 0 THEN "amount must be positive"
    ELSE IF AccAddressFromBech32(msg.recipient) # NoError
        THEN "invalid recipient address"
    ELSE IF Len(msg.signatures) = 0 THEN "signatures cannot be empty"
    ELSE IF msg.sourceChain = 0 THEN "source chain cannot be zero"
    ELSE NoError

\* The checks on the token and the amount that both LockTokens make.
LockLimitsError(msg) ==
    IF msg.denom \notin TokenRegistry THEN "token not supported"
    ELSE IF msg.denom \notin EnabledTokens THEN "token is disabled"
    ELSE IF msg.amount < MinTransfer THEN "below minimum"
    ELSE IF MaxTransfer > 0 /\ msg.amount > MaxTransfer THEN "exceeds maximum"
    ELSE NoError

\* bankKeeper.SendCoins: refused when the payer holds less than the amount.
SendCoinsError(bank, from, amount) ==
    IF bank[from] < amount THEN "insufficient funds" ELSE NoError

SendCoins(bank, from, to, amount) ==
    IF from = to THEN bank
    ELSE [bank EXCEPT ![from] = @ - amount, ![to] = @ + amount]

CosmosBridge_LockTokensError(c, msg) ==
    IF GetTransferRecord(c, msg.transferID) # NoRecord THEN "already exists"
    ELSE LockLimitsError(msg)

msgServer_LockTokensError(c, msg) ==
    IF MsgLockTokens_ValidateBasic(msg) # NoError
        THEN MsgLockTokens_ValidateBasic(msg)
    ELSE IF GetTransferRecord(c, msg.transferID) # NoRecord
        THEN "already exists"
    ELSE IF LockLimitsError(msg) # NoError THEN LockLimitsError(msg)
    ELSE IF SendCoinsError(c.bank, msg.sender, msg.amount) # NoError
        THEN "failed to lock tokens"
    ELSE NoError

LockedRecord(msg) ==
    [sender |-> msg.sender, amount |-> msg.amount,
     status |-> TransferStatusLocked]

\* What a call leaves behind for the caller and for the claims: the
\* function, the message, the error, and the bridge as the call found it.
CosmosReturned(fn, msg, err) ==
    cosmosCall' = [fn |-> fn, msg |-> msg, err |-> err, before |-> cosmos]

CosmosBridge_LockTokens(msg) ==
    /\ cosmos.impl = "bridge"
    /\ LET err == CosmosBridge_LockTokensError(cosmos, msg) IN
        /\ cosmos' = IF err # NoError THEN cosmos
                     ELSE [cosmos EXCEPT
                              !.transferRecords[msg.transferID] =
                                  LockedRecord(msg)]
        /\ CosmosReturned("LockTokens", msg, err)
    /\ UNCHANGED <<ledgerVars, signatures, coordVars, collectVars, chainVars,
                   watchVars, execVars, expired, cancelVars, adapter,
                   bridgeVars, codec, loops, sentBag>>

msgServer_LockTokens(msg) ==
    /\ cosmos.impl = "keeper"
    /\ LET err == msgServer_LockTokensError(cosmos, msg) IN
        /\ cosmos' = IF err # NoError THEN cosmos
                     ELSE [cosmos EXCEPT
                              !.bank = SendCoins(@, msg.sender, ModuleAccount,
                                                 msg.amount),
                              !.transferRecords[msg.transferID] =
                                  LockedRecord(msg)]
        /\ CosmosReturned("LockTokens", msg, err)
    /\ UNCHANGED <<ledgerVars, signatures, coordVars, collectVars, chainVars,
                   watchVars, execVars, expired, cancelVars, adapter,
                   bridgeVars, codec, loops, sentBag>>

IsAuthorizedRelayer_Any(c, address) == TRUE

\* Keeper.IsAuthorizedRelayer, and the same test at the head of
\* CosmosBridge.UnlockTokens: registered and active.
IsAuthorizedRelayer(c, address) ==
    /\ address \in DOMAIN c.relayers
    /\ c.relayers[address] = "active"

\* ValidateSignatures of both implementations: the length of the list is
\* all it looks at.
CosmosValidateSignatures(transferID, sigs) ==
    IF Len(sigs) < CosmosSignatureThreshold THEN "insufficient signatures"
    ELSE NoError

AlreadyCompleted_Never(record) == FALSE

\* The status test of both UnlockTokens.
AlreadyCompleted(record) ==
    record.status \in {TransferStatusCompleted, TransferStatusUnlocked}

CosmosBridge_UnlockTokensError(c, msg) ==
    IF ~IsAuthorizedRelayer(c, msg.relayer) THEN "not authorized"
    ELSE IF GetTransferRecord(c, msg.transferID) = NoRecord THEN "not found"
    ELSE IF AlreadyCompleted(GetTransferRecord(c, msg.transferID))
        THEN "already completed"
    ELSE IF CosmosValidateSignatures(msg.transferID, msg.signatures) # NoError
        THEN "signature validation failed"
    ELSE IF msg.amount # GetTransferRecord(c, msg.transferID).amount
        THEN "amount mismatch"
    ELSE NoError

msgServer_UnlockTokensError(c, msg) ==
    IF MsgUnlockTokens_ValidateBasic(msg) # NoError
        THEN MsgUnlockTokens_ValidateBasic(msg)
    ELSE IF ~IsAuthorizedRelayer(c, msg.relayer) THEN "not authorized"
    ELSE IF GetTransferRecord(c, msg.transferID) = NoRecord THEN "not found"
    ELSE IF AlreadyCompleted(GetTransferRecord(c, msg.transferID))
        THEN "already completed"
    ELSE IF CosmosValidateSignatures(msg.transferID, msg.signatures) # NoError
        THEN "signature validation failed"
    ELSE IF msg.denom \notin TokenRegistry THEN "token not supported"
    ELSE IF msg.amount # GetTransferRecord(c, msg.transferID).amount
        THEN "amount mismatch"
    ELSE IF SendCoinsError(c.bank, ModuleAccount, msg.amount) # NoError
        THEN "failed to unlock tokens"
    ELSE NoError

CosmosBridge_UnlockTokens(msg) ==
    /\ cosmos.impl = "bridge"
    /\ LET err == CosmosBridge_UnlockTokensError(cosmos, msg) IN
        /\ cosmos' = IF err # NoError THEN cosmos
                     ELSE [cosmos EXCEPT
                              !.transferRecords[msg.transferID].status =
                                  TransferStatusUnlocked,
                              !.unlocks[msg.transferID] = @ + 1]
        /\ CosmosReturned("UnlockTokens", msg, err)
    /\ UNCHANGED <<ledgerVars, signatures, coordVars, collectVars, chainVars,
                   watchVars, execVars, expired, cancelVars, adapter,
                   bridgeVars, codec, loops, sentBag>>

msgServer_UnlockTokens(msg) ==
    /\ cosmos.impl = "keeper"
    /\ LET err == msgServer_UnlockTokensError(cosmos, msg) IN
        /\ cosmos' = IF err # NoError THEN cosmos
                     ELSE [cosmos EXCEPT
                              !.bank = SendCoins(@, ModuleAccount,
                                                 msg.recipient, msg.amount),
                              !.transferRecords[msg.transferID].status =
                                  TransferStatusUnlocked,
                              !.unlocks[msg.transferID] = @ + 1]
        /\ CosmosReturned("UnlockTokens", msg, err)
    /\ UNCHANGED <<ledgerVars, signatures, coordVars, collectVars, chainVars,
                   watchVars, execVars, expired, cancelVars, adapter,
                   bridgeVars, codec, loops, sentBag>>

\* CosmosBridge.AddRelayer, and Keeper.SetRelayerInfo with an active entry.
AddRelayer(address) ==
    /\ cosmos.impl # "none"
    /\ cosmos' = [cosmos EXCEPT !.relayers[address] = "active"]
    /\ cosmosCall' = [fn |-> "AddRelayer"]
    /\ UNCHANGED <<ledgerVars, signatures, coordVars, collectVars, chainVars,
                   watchVars, execVars, expired, cancelVars, adapter,
                   bridgeVars, codec, loops, sentBag>>

\* Keeper.DeleteRelayerInfo.
DeleteRelayerInfo(address) ==
    /\ cosmos.impl = "keeper"
    /\ cosmos' = [cosmos EXCEPT !.relayers[address] = "absent"]
    /\ cosmosCall' = [fn |-> "DeleteRelayerInfo"]
    /\ UNCHANGED <<ledgerVars, signatures, coordVars, collectVars, chainVars,
                   watchVars, execVars, expired, cancelVars, adapter,
                   bridgeVars, codec, loops, sentBag>>

\* The messages sent to the bridge.  The caller of UnlockTokens holds one
\* list of signatures, chosen when the bridge is set up.
LockMsg(transferID, sender, denom, amount) ==
    [transferID |-> transferID, sender |-> sender, denom |-> denom,
     amount |-> amount, destinationChain |-> ChainEthereum,
     recipient |-> "0xR"]

\* Every amount from a good sender in the enabled token, and one message
\* for each other thing that can be wrong with a lock.
LockMsgs ==
    {LockMsg(t, "cosmos1s", "uatom", a) : t \in TransferIds, a \in CosmosAmounts}
        \cup {LockMsg(t, "notbech32", "uatom", MinTransfer) : t \in TransferIds}
        \cup {LockMsg(t, "cosmos1s", d, MinTransfer) :
                  t \in TransferIds, d \in CosmosDenoms}

UnlockMsgs ==
    [relayer : {"cosmos1r1", "cosmos1r2", "notbech32"},
     transferID : TransferIds, denom : {"uatom"},
     amount : MinTransfer..MaxTransfer, recipient : {"cosmos1s"},
     signatures : {cosmos.held}, sourceChain : {ChainEthereum}]

\* NewCosmosBridge, or the module after genesis, with the sender funded and
\* one relayer registered.
InitCosmos ==
    /\ InitLedger /\ InitIdle /\ InitWatch /\ InitOther /\ InitAdapter
    /\ InitNoContract /\ InitNoCodec /\ InitNoLoops
    /\ cosmosCall = [fn |-> "none"]
    /\ \E impl \in CosmosImpls, held \in CosmosSignatureLists :
        cosmos = [impl |-> impl,
                  held |-> held,
                  transferRecords |-> [t \in TransferIds |-> NoRecord],
                  relayers |-> [a \in {"cosmos1r1", "cosmos1r2"} |->
                                   IF a = "cosmos1r1" THEN "active"
                                   ELSE "absent"],
                  bank |-> [a \in CosmosAccounts |->
                               IF a = "cosmos1s" THEN CosmosFunds ELSE 0],
                  unlocks |-> [t \in TransferIds |-> 0]]

NextCosmos ==
    \/ \E msg \in LockMsgs : CosmosBridge_LockTokens(msg)
    \/ \E msg \in LockMsgs : msgServer_LockTokens(msg)
    \/ \E msg \in UnlockMsgs : CosmosBridge_UnlockTokens(msg)
    \/ \E msg \in UnlockMsgs : msgServer_UnlockTokens(msg)
    \/ AddRelayer("cosmos1r2")
    \/ DeleteRelayerInfo("cosmos1r2")

SpecCosmos == InitCosmos /\ [][NextCosmos]_vars

-----------------------------------------------------------------------------
(* BigInt and its JSON form.  A BigInt wraps a big.Int, an integer of any  *)
(* size kept as a little-endian sequence of machine words with no leading  *)
(* zero word; the word is scaled down to four bits here.  MarshalJSON      *)
(* writes the decimal digits of the value as a JSON string, UnmarshalJSON  *)
(* reads a JSON string and parses its digits in base 10.                   *)

WordBase == 16
MaxWords == 2

Words == 0..(WordBase - 1)

\* The big.Int values of at most n words.
NatsUpTo(n) ==
    {x \in UNION {[1..k -> Words] : k \in 0..n} : x = <<>> \/ x[Len(x)] # 0}

\* Drop the leading zero words.
RECURSIVE norm(_)
norm(x) ==
    IF x = <<>> \/ x[Len(x)] # 0 THEN x ELSE norm(SubSeq(x, 1, Len(x) - 1))

\* z = x * m + a, word by word with carry from the least significant word.
RECURSIVE mulAddCarry(_, _, _)
mulAddCarry(x, m, carry) ==
    IF x = <<>>
        THEN IF carry = 0 THEN <<>>
             ELSE <<carry % WordBase>> \o mulAddCarry(<<>>, m, carry \div WordBase)
    ELSE LET t == x[1] * m + carry IN
             <<t % WordBase>> \o mulAddCarry(Tail(x), m, t \div WordBase)

mulAddWW(x, m, a) == norm(mulAddCarry(x, m, a))

\* Quotient and remainder of x by the word d, from the most significant
\* word down.
RECURSIVE divW(_, _)
divW(x, d) ==
    IF x = <<>> THEN [q |-> <<>>, r |-> 0]
    ELSE LET hi == divW(Tail(x), d)
             t  == hi.r * WordBase + x[1]
         IN [q |-> <<t \div d>> \o hi.q, r |-> t % d]

Digits == <<"0", "1", "2", "3", "4", "5", "6", "7", "8", "9">>
DigitChars == {Digits[i] : i \in DOMAIN Digits}
DigitValue(ch) == (CHOOSE i \in DOMAIN Digits : Digits[i] = ch) - 1
Quote == "\""

\* The decimal digits of a non-zero value, most significant first.
RECURSIVE utoa(_)
utoa(x) ==
    IF x = <<>> THEN <<>>
    ELSE LET d == divW(x, 10) IN utoa(norm(d.q)) \o <<Digits[d.r + 1]>>

\* big.Int.String.
String(x) == IF x = <<>> THEN <<"0">> ELSE utoa(x)

\* The value of a sequence of digits in a base.
RECURSIVE parseDigits(_, _, _)
parseDigits(s, base, z) ==
    IF s = <<>> THEN z
    ELSE parseDigits(Tail(s), base, mulAddWW(z, base, DigitValue(s[1])))

SetString_Float64(s, base) ==
    LET kept == [i \in DOMAIN s |-> IF i <= 15 THEN s[i] ELSE "0"] IN
        IF s = <<>> \/ \E i \in DOMAIN s : s[i] \notin DigitChars
            THEN [ok |-> FALSE, value |-> <<>>]
        ELSE [ok |-> TRUE, value |-> parseDigits(kept, base, <<>>)]

\* big.Int.SetString for an unsigned text: refused unless it is one digit
\* or more and nothing else.
SetString(s, base) ==
    IF s = <<>> \/ \E i \in DOMAIN s : s[i] \notin DigitChars
        THEN [ok |-> FALSE, value |-> <<>>]
    ELSE [ok |-> TRUE, value |-> parseDigits(s, base, <<>>)]

\* json.Marshal of a string of digits: the string between quotes.
MarshalString(s) == <<Quote>> \o s \o <<Quote>>

\* json.Unmarshal into a string: refused unless the text is a JSON string.
UnmarshalString(data) ==
    IF Len(data) >= 2 /\ data[1] = Quote /\ data[Len(data)] = Quote
        THEN [err |-> NoError, s |-> SubSeq(data, 2, Len(data) - 1)]
    ELSE [err |-> "cannot unmarshal", s |-> <<>>]

\* A BigInt: its Int is nil or a value.
NilInt == [nil |-> TRUE, value |-> <<>>]
BigInt(x) == [nil |-> FALSE, value |-> x]

\* BigInt.MarshalJSON.
MarshalJSON(b) ==
    IF b.nil THEN MarshalString(<<"0">>) ELSE MarshalString(String(b.value))

\* BigInt.UnmarshalJSON: the error and the value b.Int holds afterwards.
UnmarshalJSON(b, data) ==
    LET str == UnmarshalString(data)
        i   == SetString(str.s, 10)
    IN IF str.err # NoError THEN [err |-> str.err, Int |-> b]
       ELSE IF ~i.ok THEN [err |-> "invalid big integer", Int |-> b]
       ELSE [err |-> NoError, Int |-> BigInt(i.value)]

\* The amounts of the tests and of the chains: 10^18, 2^53 + 1 and 2^64,
\* beside every value of at most MaxWords words.
LargeAmounts ==
    {<<0, 0, 0, 0, 4, 6, 7, 10, 3, 11, 6, 11, 0, 14, 13>>,
     <<1, 0, 0, 0, 0, 0, 0, 0, 0, 0, 0, 0, 0, 2>>,
     [i \in 1..17 |-> IF i = 17 THEN 1 ELSE 0]}

Amounts == NatsUpTo(MaxWords) \cup LargeAmounts

\* JSON texts that no MarshalJSON wrote: a word, a bare number, an empty
\* string.
ForeignTexts ==
    {<<Quote, "x", Quote>>, <<"1", "2">>, <<Quote, Quote>>,
     <<Quote, "4", "2", Quote>>}

\* A BigInt to send, or a text received.
InitCodec ==
    /\ InitLedger /\ InitIdle /\ InitWatch /\ InitOther /\ InitAdapter
    /\ InitNoContract /\ InitNoCosmos /\ InitNoLoops
    /\ \/ \E a \in Amounts :
            codec = [pc |-> "value", sent |-> TRUE, amount |-> BigInt(a)]
       \/ codec = [pc |-> "value", sent |-> TRUE, amount |-> NilInt]
       \/ \E text \in ForeignTexts :
            codec = [pc |-> "json", sent |-> FALSE, amount |-> NilInt,
                     json |-> text]

Marshal ==
    /\ codec.pc = "value"
    /\ codec' = [pc |-> "json", sent |-> TRUE, amount |-> codec.amount,
                 json |-> MarshalJSON(codec.amount)]
    /\ UNCHANGED <<ledgerVars, signatures, coordVars, collectVars, chainVars,
                   watchVars, execVars, expired, cancelVars, adapter,
                   bridgeVars, cosmos, cosmosCall, loops, sentBag>>

\* json.Unmarshal into a fresh BigInt.
Unmarshal ==
    /\ codec.pc = "json"
    /\ LET res == UnmarshalJSON(NilInt, codec.json) IN
        codec' = [pc |-> "read", sent |-> codec.sent,
                  amount |-> codec.amount, json |-> codec.json,
                  err |-> res.err, Int |-> res.Int]
    /\ UNCHANGED <<ledgerVars, signatures, coordVars, collectVars, chainVars,
                   watchVars, execVars, expired, cancelVars, adapter,
                   bridgeVars, cosmos, cosmosCall, loops, sentBag>>

NextCodec == Marshal \/ Unmarshal

SpecCodec == InitCodec /\ [][NextCodec]_vars

-----------------------------------------------------------------------------
(* The poll loops of one adapter.  Every call of ListenForEvents starts a  *)
(* pollEvents goroutine; each tick of a loop runs fetchAndProcessEvents,   *)
(* which reads lastBlock and the current block, then takes the event       *)
(* filters one by one, in the order the map yields them: FilterLogs, then  *)
(* one send per log.  Only after the last filter does it store             *)
(* lastBlock = currentBlock.                                               *)

PollLoops == {"l1", "l2"}
MaxSends  == 2

\* ListenForEvents: go e.pollEvents(ctx, eventChan).
StartPollLoop(l) ==
    /\ adapter.connected
    /\ loops[l].pc = "stopped"
    /\ loops' = [loops EXCEPT ![l].pc = "select"]
    /\ UNCHANGED <<ledgerVars, signatures, coordVars, collectVars, chainVars,
                   watchVars, execVars, expired, cancelVars, adapter,
                   bridgeVars, cosmos, cosmosCall, codec, sentBag>>

\* case <-ticker.C: the head of fetchAndProcessEvents, up to the first
\* filter.  rpcOk: client.BlockNumber succeeds.
LoopTick(l, rpcOk) ==
    /\ loops[l].pc = "select"
    /\ IF ~rpcOk
          THEN /\ pollErr' = "failed to get current block number"
               /\ UNCHANGED loops
       ELSE IF detectReorganization(hashAt, lastBlock) # NoError
          THEN /\ pollErr' = ReorgDetected
               /\ UNCHANGED loops
       ELSE IF lastBlock + 1 > head
          THEN /\ pollErr' = NoError
               /\ UNCHANGED loops
       ELSE /\ loops' = [loops EXCEPT ![l] =
                            [pc |-> "filter", from |-> lastBlock + 1,
                             to |-> head, todo |-> EventFilters,
                             pending |-> {}]]
            /\ UNCHANGED pollErr
    /\ UNCHANGED <<ledgerVars, signatures, coordVars, collectVars, chainVars,
                   lastBlock, seenHash, eventChan, execVars, expired,
                   cancelVars, adapter, bridgeVars, cosmos, cosmosCall, codec,
                   sentBag>>

\* The logs of one filter that parse, as events.
FilterEvents(chain, filter, from, to) ==
    {Event(p[1], p[2]) :
        p \in {q \in FilterLogs(chain, EventTypeOf(filter), from, to) :
                  q[2].wellFormed}}

\* The next filter of the range: client.FilterLogs.  An error returns from
\* fetchAndProcessEvents at once, with lastBlock as it was.
LoopFilter(l, filter, rpcOk) ==
    /\ loops[l].pc = "filter"
    /\ filter \in loops[l].todo
    /\ IF ~rpcOk
          THEN /\ pollErr' = "failed to filter logs"
               /\ loops' = [loops EXCEPT ![l].pc = "select"]
          ELSE /\ loops' = [loops EXCEPT
                               ![l].pc = "sending",
                               ![l].todo = @ \ {filter},
                               ![l].pending =
                                   FilterEvents(hashAt, filter, loops[l].from,
                                                loops[l].to)]
               /\ UNCHANGED pollErr
    /\ UNCHANGED <<ledgerVars, signatures, coordVars, collectVars, chainVars,
                   lastBlock, seenHash, eventChan, execVars, expired,
                   cancelVars, adapter, bridgeVars, cosmos, cosmosCall, codec,
                   sentBag>>

\* case eventChan <- *event.
LoopSend(l, e) ==
    /\ loops[l].pc = "sending"
    /\ e \in loops[l].pending
    /\ CopiesIn(e, sentBag) < MaxSends
    /\ eventChan' = eventChan \cup {e}
    /\ sentBag' = sentBag (+) SetToBag({e})
    /\ loops' = [loops EXCEPT ![l].pending = @ \ {e}]
    /\ UNCHANGED <<ledgerVars, signatures, coordVars, collectVars, chainVars,
                   lastBlock, seenHash, pollErr, execVars, expired,
                   cancelVars, adapter, bridgeVars, cosmos, cosmosCall, codec>>

\* The logs of a filter are all sent: on to the next filter, or, after the
\* last one, e.lastBlock = currentBlock and return nil.
LoopFilterDone(l) ==
    /\ loops[l].pc = "sending"
    /\ loops[l].pending = {}
    /\ IF loops[l].todo # {}
          THEN /\ loops' = [loops EXCEPT ![l].pc = "filter"]
               /\ UNCHANGED <<lastBlock, seenHash, pollErr>>
          ELSE /\ lastBlock' = loops[l].to
               /\ seenHash' = hashAt[loops[l].to]
               /\ pollErr' = NoError
               /\ loops' = [loops EXCEPT ![l].pc = "select"]
    /\ UNCHANGED <<ledgerVars, signatures, coordVars, collectVars, chainVars,
                   eventChan, execVars, expired, cancelVars, adapter,
                   bridgeVars, cosmos, cosmosCall, codec, sentBag>>

\* The steps of the loops in ls.
NextLoops(ls) ==
    \E l \in ls :
        \/ StartPollLoop(l)
        \/ \E rpcOk \in BOOLEAN : LoopTick(l, rpcOk)
        \/ \E f \in EventFilters, rpcOk \in BOOLEAN : LoopFilter(l, f, rpcOk)
        \/ \E e \in loops[l].pending : LoopSend(l, e)
        \/ LoopFilterDone(l)

\* One call of ListenForEvents on a growing chain.
NextPollOne ==
    \/ \E h \in BlockHashes : MineBlock(h)
    \/ NextLoops({"l1"})

SpecPollOne == InitCancel /\ [][NextPollOne]_vars

\* ListenForEvents called twice on the same adapter.
NextPollTwo ==
    \/ \E h \in BlockHashes : MineBlock(h)
    \/ NextLoops(PollLoops)

SpecPollTwo == InitCancel /\ [][NextPollTwo]_vars

-----------------------------------------------------------------------------
(* EthereumBridge: the relayer set and requiredSignatures under the        *)
(* constructor, addRelayer, removeRelayer and updateRequiredSignatures.    *)
(* The relayers array holds each relayer once: the constructor is given    *)
(* distinct addresses, addRelayer skips a relayer that has the role.       *)

Admin == "0xAdmin"
Callers == {Admin, Outsider}
RelayerAddresses == AuthorizedRelayers \cup {ZeroAddress}

\* onlyRole(ADMIN_ROLE).
onlyRole(b, caller) ==
    IF caller = b.admin THEN Success ELSE "AccessControlUnauthorizedAccount"

constructorError(_admin, _relayers, _requiredSignatures) ==
    IF _admin = ZeroAddress THEN "ZeroAddress"
    ELSE IF _requiredSignatures = 0
            \/ _requiredSignatures > Cardinality(_relayers)
        THEN "InsufficientSignatures"
    ELSE IF ZeroAddress \in _relayers THEN "ZeroAddress"
    ELSE Success

\* The constructor; a revert leaves no contract.
constructor(_admin, _relayers, _requiredSignatures) ==
    /\ ~bridge.deployed
    /\ LET err == constructorError(_admin, _relayers, _requiredSignatures) IN
        /\ bridge' = IF err # Success THEN bridge
                     ELSE [deployed |-> TRUE, paused |-> FALSE,
                           admin |-> _admin,
                           relayers |-> _relayers,
                           requiredSignatures |-> _requiredSignatures,
                           supportedTokens |-> {},
                           processedTransfers |-> {},
                           pool |-> 0, paid |-> 0,
                           released |-> [t \in TransferIds |-> 0]]
        /\ bridgeCall' = [fn |-> "constructor", err |-> err]
    /\ UNCHANGED <<ledgerVars, signatures, coordVars, collectVars, chainVars,
                   watchVars, execVars, expired, cancelVars, adapter,
                   contract, prepared, laterVars>>

addRelayerError(b, caller, relayer) ==
    IF onlyRole(b, caller) # Success THEN onlyRole(b, caller)
    ELSE IF relayer = ZeroAddress THEN "ZeroAddress"
    ELSE Success

addRelayer(caller, relayer) ==
    /\ bridge.deployed
    /\ LET err == addRelayerError(bridge, caller, relayer) IN
        /\ bridge' = IF err # Success \/ hasRole(bridge.relayers, relayer)
                        THEN bridge
                     ELSE [bridge EXCEPT !.relayers = @ \cup {relayer}]
        /\ bridgeCall' = [fn |-> "addRelayer", err |-> err]
    /\ UNCHANGED <<ledgerVars, signatures, coordVars, collectVars, chainVars,
                   watchVars, execVars, expired, cancelVars, adapter,
                   contract, prepared, laterVars>>

\* removeRelayer: no look at requiredSignatures.
removeRelayer(caller, relayer) ==
    /\ bridge.deployed
    /\ LET err == onlyRole(bridge, caller) IN
        /\ bridge' = IF err # Success \/ ~hasRole(bridge.relayers, relayer)
                        THEN bridge
                     ELSE [bridge EXCEPT !.relayers = @ \ {relayer}]
        /\ bridgeCall' = [fn |-> "removeRelayer", err |-> err]
    /\ UNCHANGED <<ledgerVars, signatures, coordVars, collectVars, chainVars,
                   watchVars, execVars, expired, cancelVars, adapter,
                   contract, prepared, laterVars>>

updateRequiredSignaturesError(b, caller, _requiredSignatures) ==
    IF onlyRole(b, caller) # Success THEN onlyRole(b, caller)
    ELSE IF _requiredSignatures = 0
            \/ _requiredSignatures > Cardinality(b.relayers)
        THEN "InsufficientSignatures"
    ELSE Success

updateRequiredSignatures(caller, _requiredSignatures) ==
    /\ bridge.deployed
    /\ LET err == updateRequiredSignaturesError(bridge, caller,
                                                _requiredSignatures) IN
        /\ bridge' = IF err # Success THEN bridge
                     ELSE [bridge EXCEPT
                              !.requiredSignatures = _requiredSignatures]
        /\ bridgeCall' = [fn |-> "updateRequiredSignatures", err |-> err]
    /\ UNCHANGED <<ledgerVars, signatures, coordVars, collectVars, chainVars,
                   watchVars, execVars, expired, cancelVars, adapter,
                   contract, prepared, laterVars>>

\* An EthereumBridge about to be deployed.
InitRelayers ==
    /\ InitLedger /\ InitIdle /\ InitWatch /\ InitOther /\ InitLater
    /\ InitAdapter
    /\ contract = "EthereumBridge"
    /\ prepared = <<>>

NextRelayers ==
    \/ \E a \in {Admin, ZeroAddress}, rs \in SUBSET RelayerAddresses,
          n \in 0..Cardinality(AuthorizedRelayers) : constructor(a, rs, n)
    \/ \E c \in Callers, r \in RelayerAddresses : addRelayer(c, r)
    \/ \E c \in Callers, r \in AuthorizedRelayers : removeRelayer(c, r)
    \/ \E c \in Callers, n \in 0..(Cardinality(AuthorizedRelayers) + 1) :
          updateRequiredSignatures(c, n)

SpecRelayers == InitRelayers /\ [][NextRelayers]_vars

-----------------------------------------------------------------------------
(* The IBC handler of the Cosmos module: outgoing transfers, their         *)
(* acknowledgements and timeouts.  The channel delivers one                *)
(* acknowledgement or one timeout for every packet sent.                   *)

IBCTransferStatusSent     == "sent"
IBCTransferStatusReceived == "received"
IBCTransferStatusTimeout  == "timeout"
IBCTransferStatusFailed   == "failed"

MaxPackets == 2
PacketSequences == 1..MaxPackets

\* Keeper.GetIBCTransferRecord.
GetIBCTransferRecord(c, packetSequence) == c.ibcTransfers[packetSequence]

\* Keeper.SetIBCTransferRecord with a changed status.
SetIBCStatus(c, packetSequence, status) ==
    [c EXCEPT !.ibcTransfers[packetSequence].status = status]

\* Keeper.SendIBCTransfer.  sendOk: ChannelKeeper.SendPacket accepts the
\* packet.
SendIBCTransfer(sender, amount, sendOk) ==
    /\ cosmos.impl = "keeper"
    /\ cosmos.nextSeq \in PacketSequences
    /\ cosmos' = IF ~sendOk THEN cosmos
                 ELSE [cosmos EXCEPT
                          !.nextSeq = @ + 1,
                          !.packets[cosmos.nextSeq] =
                              [state |-> "sent", sender |-> sender,
                               amount |-> amount],
                          !.ibcTransfers[cosmos.nextSeq] =
                              [sender |-> sender, amount |-> amount,
                               status |-> IBCTransferStatusSent]]
    /\ cosmosCall' = [fn |-> "SendIBCTransfer", seq |-> cosmos.nextSeq,
                      success |-> sendOk,
                      err |-> IF sendOk THEN NoError
                              ELSE "failed to send IBC packet"]
    /\ UNCHANGED <<ledgerVars, signatures, coordVars, collectVars, chainVars,
                   watchVars, execVars, expired, cancelVars, adapter,
                   bridgeVars, codec, loops, sentBag>>

refundTokensError(c, data) ==
    IF AccAddressFromBech32(data.sender) # NoError
        THEN "invalid sender address"
    ELSE IF SendCoinsError(c.bank, ModuleAccount, data.amount) # NoError
        THEN "failed to refund tokens"
    ELSE NoError

\* refundTokens: the store it leaves.  An error returns before any write.
refundTokens(c, packetSequence, data) ==
    IF refundTokensError(c, data) # NoError THEN c
    ELSE LET paid == [c EXCEPT !.bank = SendCoins(@, ModuleAccount,
                                                  data.sender, data.amount)]
         IN IF GetIBCTransferRecord(paid, packetSequence) = NoRecord THEN paid
            ELSE SetIBCStatus(paid, packetSequence, IBCTransferStatusTimeout)

\* processAcknowledgement: the status by the acknowledgement, then the
\* refund if it reports failure.
processAcknowledgement(c, packetSequence, data, ackSuccess) ==
    LET marked ==
            IF GetIBCTransferRecord(c, packetSequence) = NoRecord THEN c
            ELSE SetIBCStatus(c, packetSequence,
                              IF ackSuccess THEN IBCTransferStatusReceived
                              ELSE IBCTransferStatusFailed)
    IN IF ackSuccess THEN [err |-> NoError, store |-> marked]
       ELSE [err |-> refundTokensError(marked, data),
             store |-> refundTokens(marked, packetSequence, data)]

\* The channel is done with a packet.
PacketClosed(c, packetSequence) ==
    [c EXCEPT !.packets[packetSequence].state = "closed"]

\* OnAcknowledgementPacket for a packet in flight.  When the handler returns
\* an error the writes it made are kept or discarded with the transaction
\* (kept says which).
OnAcknowledgementPacket(packetSequence, ackSuccess, kept) ==
    /\ cosmos.impl = "keeper"
    /\ cosmos.packets[packetSequence].state = "sent"
    /\ LET res == processAcknowledgement(cosmos, packetSequence,
                                         cosmos.packets[packetSequence],
                                         ackSuccess) IN
        /\ cosmos' = IF res.err = NoError \/ kept
                        THEN PacketClosed(res.store, packetSequence)
                     ELSE PacketClosed(cosmos, packetSequence)
        /\ cosmosCall' = [fn |-> "OnAcknowledgementPacket",
                          seq |-> packetSequence, success |-> ackSuccess,
                          err |-> res.err]
    /\ UNCHANGED <<ledgerVars, signatures, coordVars, collectVars, chainVars,
                   watchVars, execVars, expired, cancelVars, adapter,
                   bridgeVars, codec, loops, sentBag>>

\* OnTimeoutPacket for a packet in flight.
OnTimeoutPacket(packetSequence) ==
    /\ cosmos.impl = "keeper"
    /\ cosmos.packets[packetSequence].state = "sent"
    /\ LET data == cosmos.packets[packetSequence] IN
        /\ cosmos' = PacketClosed(refundTokens(cosmos, packetSequence, data),
                                  packetSequence)
        /\ cosmosCall' = [fn |-> "OnTimeoutPacket", seq |-> packetSequence,
                          success |-> FALSE,
                          err |-> refundTokensError(cosmos, data)]
    /\ UNCHANGED <<ledgerVars, signatures, coordVars, collectVars, chainVars,
                   watchVars, execVars, expired, cancelVars, adapter,
                   bridgeVars, codec, loops, sentBag>>

\* The module with some funds in its account and no packet sent.
InitIBC ==
    /\ InitLedger /\ InitIdle /\ InitWatch /\ InitOther /\ InitAdapter
    /\ InitNoContract /\ InitNoCodec /\ InitNoLoops
    /\ cosmosCall = [fn |-> "none"]
    /\ \E funds \in 0..CosmosFunds :
        cosmos = [impl |-> "keeper",
                  nextSeq |-> 1,
                  packets |-> [s \in PacketSequences |-> [state |-> "none"]],
                  ibcTransfers |-> [s \in PacketSequences |-> NoRecord],
                  bank |-> [a \in CosmosAccounts |->
                               IF a = ModuleAccount THEN funds ELSE 0]]

NextIBC ==
    \/ \E sender \in {"cosmos1s", "notbech32"},
          amount \in MinTransfer..MaxTransfer, sendOk \in BOOLEAN :
          SendIBCTransfer(sender, amount, sendOk)
    \/ \E s \in PacketSequences, ackSuccess \in BOOLEAN, kept \in BOOLEAN :
          OnAcknowledgementPacket(s, ackSuccess, kept)
    \/ \E s \in PacketSequences : OnTimeoutPacket(s)

SpecIBC == InitIBC /\ [][NextIBC]_vars

----------------------------------------------------------------------------
(* The transfers ledger: claims C3, C4, C5 (specification Spec) *)

\* C3: however often the same event id is delivered to RecordTransfer, the
\* transfers table holds at most one row with that id.
C3_AtMostOneRowPerId ==
    \A id \in TransferIds :
        RowCount(transfers, GetByID(transfers, id)) <= 1

\* C3 witness: a second delivery of a stored id was refused by the primary key.
C3_DuplicateDeliveryRefused ==
    /\ lastCall.op = "RecordTransfer"
    /\ lastCall.err = DuplicateTransfer
    /\ RowCount(transfers, GetByID(transfers, lastCall.id)) = 1

NonTerminal ==
    {StatusPending, StatusConfirming, StatusSigned, StatusExecuting,
     StatusUnderReview}

\* The edges of the transfer state machine.
StateMachineEdges ==
    {<<StatusPending, StatusConfirming>>, <<StatusConfirming, StatusSigned>>,
     <<StatusSigned, StatusExecuting>>, <<StatusExecuting, StatusCompleted>>,
     <<StatusUnderReview, StatusConfirming>>}
    \cup {<<s, StatusFailed>> : s \in NonTerminal}
    \cup {<<s, StatusUnderReview>> :
            s \in {StatusConfirming, StatusSigned, StatusExecuting}}

\* C4: every change of a stored transfer's status follows an edge of the
\* state machine (Pending -> Confirming -> Signed -> Executing -> Completed,
\* non-terminal -> Failed, Confirming/Signed/Executing -> UnderReview,
\* UnderReview -> Confirming or Failed).
C4_StatusFollowsStateMachine ==
    [][\A id \in TransferIds :
         \A old \in GetByID(transfers, id) : \A new \in GetByID(transfers', id) :
            new.status # old.status =>
                <<old.status, new.status>> \in StateMachineEdges]_vars

\* C5: once a transfer's status is Completed or Failed, no later operation
\* changes it.
C5_TerminalStatusIsFinal ==
    [][\A id \in TransferIds :
         \A old \in GetByID(transfers, id) : \A new \in GetByID(transfers', id) :
            old.status \in {StatusCompleted, StatusFailed} =>
                new.status = old.status]_vars

----------------------------------------------------------------------------
(* The signatures table: claims C6, C7, C8, C9 (specification SpecSig) *)

\* The distinct authorized signers recorded for a transfer.
AuthorizedSignersOf(sigs, transferID) ==
    SignersOf(sigs, transferID) \cap AuthorizedRelayers

\* C6: with fewer than SignatureThreshold distinct authorized signers
\* recorded for a transfer, the threshold decision is never "met", however
\* many signatures were delivered.
C6_ThresholdNeedsAuthorizedSigners ==
    \A id \in TransferIds :
        ThresholdMet(signatures, id) =>
            Cardinality(AuthorizedSignersOf(signatures, id)) >= SignatureThreshold

\* C7: a signature offered by an address outside the authorized relayer set
\* is rejected (the call returns an error) and is never among the rows that
\* the signature count counts.
C7_UnauthorizedNeverCounted ==
    /\ \A r \in BagToSet(signatures) : r.relayer_address \in AuthorizedRelayers
    /\ (lastCall.op = "RecordSignature" /\ lastCall.arg \notin AuthorizedRelayers)
           => lastCall.err # NoError

\* C8: the signatures table holds at most one row for each
\* (transferId, relayerAddress) pair.
C8_OneRowPerTransferAndRelayer ==
    \A id \in TransferIds, a \in Relayers :
        RowCount(signatures,
                 {r \in BagToSet(signatures) :
                     r.transfer_id = id /\ r.relayer_address = a}) <= 1

\* C8 witness: a relayer's second signature for a transfer was refused by the
\* unique constraint while its first row is stored.
C8_SecondSignatureRefused ==
    /\ lastCall.op = "RecordSignature"
    /\ lastCall.err = DuplicateSignature
    /\ HasSignature(signatures, lastCall.id, lastCall.arg)

\* C9: RecordSignature for a (transferId, relayerAddress) pair that is already
\* stored returns no error and leaves the signatures table unchanged.
C9_DuplicateSignatureIsNoOp ==
    [][(/\ lastCall'.op = "RecordSignature"
        /\ lastCall'.err \notin MalformedSignature
        /\ HasSignature(signatures, lastCall'.id, lastCall'.arg))
           => (lastCall'.err = NoError /\ signatures' = signatures)]_vars

----------------------------------------------------------------------------
(* Signature collection: claim C10 (specification SpecCollect) *)

\* The signers of the well-formed deliveries of a multiset: a function of the
\* multiset alone, not of the order of delivery.
SignersDelivered(deliveries) ==
    {d.relayer_address :
        d \in {x \in BagToSet(deliveries) :
                  x.relayer_address # "" /\ x.signature # ""}}

\* C10: whatever the order in which a multiset of signatures has been
\* delivered for a transfer, the recorded set of signers is the set of signers
\* of the multiset and the threshold decision is the one that set gives.
C10_CollectionIsCommutative ==
    /\ SignersOf(signatures, "T1") = SignersDelivered(offered)
    /\ ThresholdMet(signatures, "T1")
           <=> Cardinality(SignersDelivered(offered)) >= SignatureThreshold

\* C10 witness: a whole batch was delivered in which one signer signed twice
\* with different bytes and a second signer once, and the threshold is met.
C10_BatchWithRepeatedSignerDelivered ==
    /\ batch = EmptyBag
    /\ BagCardinality(offered) = MaxBatch
    /\ \E d, e \in BagToSet(offered) :
          d.relayer_address = e.relayer_address /\ d.signature # e.signature
    /\ Cardinality(SignersOf(signatures, "T1")) = 2
    /\ ThresholdMet(signatures, "T1")

----------------------------------------------------------------------------
(* The pipeline: claims C1, C2 (specification SpecPipeline) *)

\* The coordinators whose Signed -> Executing attempt on t succeeded.
Winners(t) ==
    {c \in Coordinators :
        cur[c] = t /\ pc[c] \in {"submit", "complete", "complete2", "done"}}

\* C1: a transfer whose threshold is met is submitted to the destination
\* chain at most once and is marked Completed at most once, under every
\* interleaving of deliveries and coordinators.
C1_SubmittedAndCompletedOnce ==
    \A t \in TransferIds : sent[t] <= 1 /\ finished[t] <= 1

\* C2: of the coordinators that attempt Signed -> Executing for the same
\* transfer, at most one succeeds and goes on to submit.
C2_OneClaimWins ==
    \A t \in TransferIds : Cardinality(Winners(t)) <= 1

----------------------------------------------------------------------------
(* The watcher: claims C11 to C15 (specification SpecWatch) *)

\* C11: an event is sent on the event channel only when the head is at least
\* RequiredConfirmations blocks above the event's block.
C11_SurfacedOnlyWhenConfirmed ==
    [][\A e \in eventChan' \ eventChan :
          head - e.block_number >= RequiredConfirmations]_vars

\* The hash of the block in which the source transaction of a recorded
\* transfer was observed.
SourceBlockHash(row) ==
    LET t == CHOOSE x \in ChainTxs :
                x.tx_hash = row.source_tx_hash /\ x.block_number = row.block_number
    IN t.block_hash

\* C12: a transfer whose source block no longer has the hash under which its
\* event was observed is never marked Completed.
C12_NoCompletionOnStaleBlock ==
    [][\A id \in TransferIds :
         \A old \in GetByID(transfers, id) : \A new \in GetByID(transfers', id) :
            (old.status # StatusCompleted /\ new.status = StatusCompleted)
                => hashAt[old.block_number] = SourceBlockHash(old)]_vars

\* C13: a poll (all of whose RPC calls succeed) that finds the block at
\* lastBlock with another hash than the one it had when lastBlock was set, or
\* finds no block there, reports a reorganization and sends no event.
C13_HashChangeReportedAsReorg ==
    [][(/\ fetchAndProcessEvents(TRUE, EventFilters)
        /\ lastBlock # 0
        /\ hashAt[lastBlock] # seenHash)
           => (pollErr' = ReorgDetected /\ eventChan' = eventChan)]_vars

\* What the consumer of ListenForEvents receives: the event channel.
ConsumerReceived == eventChan

\* C14: when a poll has detected a reorganization, the consumer has received
\* a reorganization signal.
C14_DetectedReorgIsSignalled ==
    pollErr = ReorgDetected => \E m \in ConsumerReceived : m.type = "reorg"

\* The bridge contract's logs in the canonical blocks from..to.
BridgeLogs(chain, from, to) ==
    UNION {FilterLogs(chain, EventTypeOf(f), from, to) : f \in EventFilters}

\* C15: lastBlock only advances over blocks whose bridge logs have all been
\* sent on the event channel.
C15_NoLogSkipped ==
    [][lastBlock' > lastBlock =>
          \A p \in BridgeLogs(hashAt, lastBlock + 1, lastBlock') :
              Event(p[1], p[2]) \in eventChan']_vars

----------------------------------------------------------------------------
(* ValidateEvent: claims C16, C17 (specification SpecValidate) *)

\* The receipt of the event's transaction shows a successful transaction in
\* the event's block with a log of the bridge contract that carries the
\* event's transfer id.
Authentic(chain, e) ==
    \E r \in TransactionReceipt(chain, e.tx_hash) :
        /\ r.status = 1
        /\ r.block_number = e.block_number
        /\ \E l \in r.logs :
              l.address = BridgeContract /\ l.transfer_id = e.transfer_id

AlreadyProcessed == "already processed"

\* C16: ValidateEvent of an authentic event whose transfer is stored with a
\* terminal status (Completed or Failed) fails with AlreadyProcessed.
C16_TerminalTransferIsAlreadyProcessed ==
    [][\A e \in InputEvents :
          (/\ IsTransferProcessed(transfers, e.transfer_id)
           /\ Authentic(hashAt, e)
           /\ ValidateEventCall(e))
              => lastCall'.err = AlreadyProcessed]_vars

\* C17: ValidateEvent returns no error only for an event whose transaction
\* succeeded, whose block number is the receipt's, and whose transfer id is
\* the one of a log the bridge contract emitted in that transaction.
C17_AcceptedEventIsAuthentic ==
    [][\A e \in InputEvents :
          (ValidateEventCall(e) /\ lastCall'.err = NoError)
              => Authentic(hashAt, e)]_vars

----------------------------------------------------------------------------
(* RecordTransfer and IsTransferProcessed: claims C18, C19, C20            *)
(* (specification SpecRecord)                                              *)

\* C18, as stated: RecordTransfer with an id that is already stored fails
\* with DuplicateTransfer and leaves the table unchanged.
C18_ExistingIdAlwaysDuplicateTransfer ==
    [][\A t \in InputTransfers :
          (GetByID(transfers, t.id) # {} /\ RecordTransfer(t))
              => (lastCall'.err = DuplicateTransfer /\ transfers' = transfers)]_vars

\* C18: RecordTransfer with an id that is already stored returns an error and
\* leaves every row unchanged; the error is DuplicateTransfer when the
\* transfer passes Validate and the CHECK constraints, and the error of the
\* validation or of the constraint otherwise.
C18_ExistingIdRefusedRowUnchanged ==
    [][\A t \in InputTransfers :
          (GetByID(transfers, t.id) # {} /\ RecordTransfer(t))
              => /\ lastCall'.err # NoError
                 /\ transfers' = transfers
                 /\ (Validate(t) = NoError /\ ~CheckViolation(t))
                        => lastCall'.err = DuplicateTransfer]_vars

\* C18 witness: a transfer that has moved on to Completed was delivered again
\* and the call failed with DuplicateTransfer; the row is still Completed.
C18_CompletedRowSurvivesRedelivery ==
    /\ lastCall.op = "RecordTransfer"
    /\ lastCall.err = DuplicateTransfer
    /\ StatusOf(transfers, lastCall.id) = {StatusCompleted}

\* The errors Create returns for amount <= 0 and for equal chains.
AmountOrChainError ==
    {ValidationFailed("amount must be positive"),
     ValidationFailed("source and destination chains must be different")}

\* C19: RecordTransfer of a transfer with amount <= 0 or with equal source
\* and destination chain returns the validation error and creates no row, and
\* every stored transfer has different chains and a positive amount.
C19_BadAmountOrChainNeverStored ==
    /\ [](\A r \in BagToSet(transfers) :
             r.source_chain # r.destination_chain /\ r.amount > 0)
    /\ [][\A t \in InputTransfers :
             ((t.amount <= 0 \/ t.source_chain = t.destination_chain) /\ RecordTransfer(t))
                 => (lastCall'.err \in AmountOrChainError /\ transfers' = transfers)]_vars

\* C19 witness: a transfer with amount 0 was refused by the validation while
\* no row with its id is stored.
C19_ZeroAmountRejected ==
    /\ lastCall.op = "RecordTransfer"
    /\ lastCall.err = ValidationFailed("amount must be positive")
    /\ GetByID(transfers, lastCall.id) = {}

----------------------------------------------------------------------------
(* Destination submission: claims C21, C22 (specification SpecSubmit) *)

\* C21: when several transfers are submitted concurrently from the same
\* submitting account, no two submitted transactions carry the same nonce.
C21_NoTwoSubmittedShareNonce ==
    \A a \in handed : \A b \in handed : a.nonce = b.nonce => a = b

----------------------------------------------------------------------------
(* Collection window: claim C23 (specification FairSpecWindow) *)

----------------------------------------------------------------------------
(* The review reason and the completion: claims C24, C25 *)

\* The reason recorded with a stored row; rows have no column for it.
ReviewReasonOf(r) ==
    IF "review_reason" \in DOMAIN r THEN r.review_reason ELSE ""

\* C24: whenever MarkTransferForReview has moved a transfer to UnderReview,
\* the reason passed to it is recorded with the transfer and can be read
\* back; a transfer is never in UnderReview without a recorded reason.
C24_ReviewReasonRecorded ==
    (lastCall.op = "MarkTransferForReview" /\ lastCall.err = NoError) =>
        \A r \in GetByID(transfers, lastCall.id) :
            r.status = StatusUnderReview => ReviewReasonOf(r) # ""

\* C25: when MarkTransferComplete(id, h) returns success for an existing
\* transfer, that transfer's status is Completed and its destination
\* transaction hash equals h.
C25_CompleteSetsStatusAndHash ==
    [][\A c \in completing :
          (c \notin completing' /\ MarkTransferComplete_Status(c)
             /\ lastCall'.err = NoError) =>
              \A r \in GetByID(transfers', c.id) :
                  r.status = StatusCompleted /\ r.destination_tx_hash = c.hash]_vars

----------------------------------------------------------------------------
(* No physical delete: claim C28 (specification SpecStore) *)

\* C28: no operation of the store deletes a transfer row: a transfer id that
\* has been recorded remains readable after any sequence of operations.
C28_RecordedTransferStaysReadable ==
    [][\A id \in TransferIds :
          GetByID(transfers, id) # {} => GetByID(transfers', id) # {}]_vars

\* C28 witness: the signatures of a completed transfer were deleted and the
\* transfer row is still there.
C28_RowSurvivesSignatureDelete ==
    /\ lastCall.op = "DeleteByTransferID"
    /\ StatusOf(transfers, lastCall.id) = {StatusCompleted}
    /\ SignersOf(signatures, lastCall.id) = {}

----------------------------------------------------------------------------
(* Cancellation of the watcher: claim C26 (specification FairSpecCancel) *)

\* The events of the blocks up to lastBlock that a poll sends.
ProducedUpTo(lb) == PollEvents(hashAt, EventFilters, 1, lb)

\* C26: cancelling the context always stops the poll loop, also while it is
\* blocked sending to a consumer that no longer receives; the interrupted
\* poll does not advance lastBlock, so every event of the blocks up to
\* lastBlock has been sent and the others are produced again by the polls
\* from lastBlock.
C26_CancelStopsAndKeepsLastBlock ==
    /\ ctxDone ~> (wpc = "stopped")
    /\ [][PollSendCancelled => lastBlock' = lastBlock]_vars
    /\ [](ProducedUpTo(lastBlock) \subseteq eventChan)

\* C26 witness: the loop was blocked on a consumer that stopped receiving,
\* the context was cancelled and the loop has stopped; an event of the
\* interrupted poll is unsent and lies after lastBlock.
C26_StoppedWithUnsentEvent ==
    /\ wpc = "stopped"
    /\ pollErr = ContextCanceled
    /\ ~reading
    /\ lastBlock < head
    /\ \E e \in PollEvents(hashAt, EventFilters, lastBlock + 1, head) :
          e \notin eventChan

----------------------------------------------------------------------------
(* Connect: claim C27 (specification SpecConnect) *)

\* C27: Connect succeeds only if the chain id reported by the endpoint equals
\* config.chain_id; on a mismatch it returns an error, does not connect the
\* adapter and leaves its configuration, last-processed block and client
\* unchanged.  On success the adapter is connected and lastBlock equals the
\* chain head read during Connect.
C27_ConnectChecksChainID ==
    [][\A config \in ChainConfigs :
         \A dialOk \in BOOLEAN, idOk \in BOOLEAN, headOk \in BOOLEAN :
            (/\ lastCall'.op = "Connect"
             /\ lastCall'.id = config.rpc
             /\ lastCall'.err = ConnectError(config, dialOk, idOk, headOk)
             /\ Connect(config, dialOk, idOk, headOk)) =>
              /\ ReportedChainID(config.rpc) # config.chain_id =>
                    /\ lastCall'.err # NoError
                    /\ adapter' = adapter
                    /\ lastBlock' = lastBlock
                    /\ ~adapter.connected => ~adapter'.connected
              /\ lastCall'.err = NoError =>
                    /\ ReportedChainID(config.rpc) = config.chain_id
                    /\ adapter'.connected
                    /\ adapter'.chain_id = config.chain_id
                    /\ lastBlock' = head]_vars

\* C27 witness: a Connect to an endpoint of another chain was refused on a
\* chain with blocks, and the adapter is as NewEthereumAdapter left it.
C27_MismatchRefused ==
    /\ lastCall.op = "Connect"
    /\ lastCall.err = "chain ID mismatch"
    /\ head > 0
    /\ adapter = [connected |-> FALSE, chain_id |-> 0, client |-> "none"]
    /\ lastBlock = 0

----------------------------------------------------------------------------
(* The bridge contracts: claims C29, C30 (specification SpecBridge) *)

ReleaseFns == {"unlockTokens", "mintTokens"}

\* The relayers of b that signed the message of the call with a signature of
\* 65 bytes.
ValidRelayerSigners(b, c, call) ==
    LET message == MessageHash(c, call.transferId, call.token, call.amount,
                               call.recipient)
        given == {call.signatures[i] : i \in DOMAIN call.signatures}
    IN  {s.signer : s \in {x \in given : x.length = 65 /\ x.over = message}}
            \cap b.relayers

\* A step that calls unlockTokens or mintTokens with a transferId the
\* contract has processed.
ReplayCalled ==
    /\ bridge.deployed
    /\ bridgeCall' # bridgeCall
    /\ bridgeCall'.fn \in ReleaseFns
    /\ bridgeCall'.transferId \in bridge.processedTransfers

\* C29 as stated: after unlockTokens or mintTokens has succeeded for a
\* transferId, every later call with that transferId reverts with
\* TransferAlreadyProcessed and changes no balance.
C29_ReplayRevertsAlreadyProcessed ==
    [][ReplayCalled =>
          /\ bridgeCall'.err = "TransferAlreadyProcessed"
          /\ bridge'.pool = bridge.pool
          /\ bridge'.paid = bridge.paid]_vars

\* C29, amended: a transferId is released at most once; every later call
\* with a processed transferId reverts and changes nothing in the contract:
\* with EnforcedPause while the contract is paused, with
\* TransferAlreadyProcessed otherwise.
C29_ReleasedAtMostOnce ==
    /\ [](bridge.deployed => \A t \in TransferIds : bridge.released[t] <= 1)
    /\ [][ReplayCalled =>
            /\ bridgeCall'.err = IF bridge.paused THEN "EnforcedPause"
                                 ELSE "TransferAlreadyProcessed"
            /\ bridge' = bridge]_vars

\* C29 witness: unlockTokens for a processed transferId, with the signatures
\* of enough relayers and tokens locked, reverted as already processed.
C29_WellSignedReplayRefused ==
    /\ bridge.deployed
    /\ contract = "EthereumBridge"
    /\ bridgeCall.fn = "unlockTokens"
    /\ bridgeCall.err = "TransferAlreadyProcessed"
    /\ bridge.pool >= 1
    /\ bridge.released[bridgeCall.transferId] = 1
    /\ Cardinality(ValidRelayerSigners(bridge, contract, bridgeCall))
          >= bridge.requiredSignatures

\* C30: unlockTokens succeeds only if the supplied signatures include valid
\* signatures over (transferId, token, amount, recipient, chain id) from at
\* least requiredSignatures distinct addresses holding RELAYER_ROLE; repeated
\* signatures of one relayer count once, signatures of others count zero.
C30_UnlockNeedsDistinctRelayers ==
    (bridgeCall.fn = "unlockTokens" /\ bridgeCall.err = Success) =>
        Cardinality(ValidRelayerSigners(bridge, "EthereumBridge", bridgeCall))
            >= bridge.requiredSignatures

\* C30 witness: an unlock succeeded on three signatures, two of them by the
\* same relayer with different bytes.
C30_RepeatedSignerCountedOnce ==
    /\ bridgeCall.fn = "unlockTokens"
    /\ bridgeCall.err = Success
    /\ Len(bridgeCall.signatures) = 3
    /\ \E i \in 1..3 : \E j \in 1..3 :
          /\ i # j
          /\ bridgeCall.signatures[i].signer = bridgeCall.signatures[j].signer
          /\ bridgeCall.signatures[i].k # bridgeCall.signatures[j].k
    /\ Cardinality(ValidRelayerSigners(bridge, "EthereumBridge", bridgeCall)) = 2

-----------------------------------------------------------------------------
(* The Cosmos bridge: claims C31, C32, C34, C39 (specification SpecCosmos) *)

LockOfExistingID ==
    /\ cosmosCall.fn = "LockTokens"
    /\ cosmosCall.before.transferRecords[cosmosCall.msg.transferID] # NoRecord

\* A call that ValidateBasic does not stop: CosmosBridge has no such step.
PassesLockValidateBasic ==
    \/ cosmos.impl = "bridge"
    \/ MsgLockTokens_ValidateBasic(cosmosCall.msg) = NoError

PassesUnlockValidateBasic ==
    \/ cosmos.impl = "bridge"
    \/ MsgUnlockTokens_ValidateBasic(cosmosCall.msg) = NoError

UnlockByUnauthorized ==
    /\ cosmosCall.fn = "UnlockTokens"
    /\ \/ cosmosCall.msg.relayer \notin DOMAIN cosmosCall.before.relayers
       \/ cosmosCall.before.relayers[cosmosCall.msg.relayer] # "active"

AuthorizedSigners(c, transferID, sigs) ==
    {sigs[i].by : i \in {j \in DOMAIN sigs :
        /\ sigs[j].over = transferID
        /\ sigs[j].by \in DOMAIN c.relayers
        /\ c.relayers[sigs[j].by] = "active"}}

\* C34: UnlockTokens succeeds only with signatures of at least
\* SignatureThreshold distinct authorized relayers.
C34_UnlockNeedsThresholdRelayerSignatures ==
    (cosmosCall.fn = "UnlockTokens" /\ cosmosCall.err = NoError) =>
        Cardinality(AuthorizedSigners(cosmosCall.before,
                                      cosmosCall.msg.transferID,
                                      cosmosCall.msg.signatures))
            >= CosmosSignatureThreshold

UnlockOfUnlocked ==
    /\ cosmosCall.fn = "UnlockTokens"
    /\ cosmosCall.before.transferRecords[cosmosCall.msg.transferID].status
           \in {TransferStatusUnlocked, TransferStatusCompleted}

\* C39 as stated: once a record is unlocked or completed, every later
\* UnlockTokens for its transferID fails with 'already completed' and
\* releases no funds.
C39_LaterUnlockAlreadyCompleted ==
    UnlockOfUnlocked =>
        /\ cosmosCall.err = "already completed"
        /\ cosmos.bank = cosmosCall.before.bank

\* C39: UnlockTokens succeeds at most once per transferID; once a record is
\* unlocked or completed every later UnlockTokens for it fails and changes
\* nothing, with 'already completed' whenever the caller is an authorized
\* relayer and the message passes ValidateBasic.
C39_UnlockedAtMostOnce ==
    /\ cosmos.impl # "none" => \A t \in TransferIds : cosmos.unlocks[t] <= 1
    /\ UnlockOfUnlocked =>
        /\ cosmosCall.err # NoError
        /\ cosmos = cosmosCall.before
        /\ (PassesUnlockValidateBasic /\ ~UnlockByUnauthorized) =>
               cosmosCall.err = "already completed"

\* A second unlock that would have passed every other check was refused.
C39_SecondUnlockRefused ==
    /\ UnlockOfUnlocked
    /\ cosmosCall.err = "already completed"
    /\ cosmos.unlocks[cosmosCall.msg.transferID] = 1
    /\ Len(cosmosCall.msg.signatures) >= CosmosSignatureThreshold
    /\ cosmosCall.msg.amount =
           cosmos.transferRecords[cosmosCall.msg.transferID].amount

-----------------------------------------------------------------------------
(* BigInt in JSON: claim C33 (specification SpecCodec) *)

\* C33: a non-negative amount written by MarshalJSON is a JSON string of
\* decimal digits, and UnmarshalJSON reads exactly the same value from it.
C33_JSONRoundTripExact ==
    /\ (codec.pc \in {"json", "read"} /\ codec.sent /\ ~codec.amount.nil) =>
        /\ codec.json[1] = Quote /\ codec.json[Len(codec.json)] = Quote
        /\ \A i \in 2..(Len(codec.json) - 1) : codec.json[i] \in DigitChars
    /\ (codec.pc = "read" /\ codec.sent /\ ~codec.amount.nil) =>
        /\ codec.err = NoError
        /\ codec.Int = codec.amount

\* 2^53 + 1, which no float64 holds, came back as it was sent.
C33_BeyondFloat64ReadBack ==
    /\ codec.pc = "read"
    /\ codec.sent
    /\ codec.amount = BigInt(<<1, 0, 0, 0, 0, 0, 0, 0, 0, 0, 0, 0, 0, 2>>)
    /\ codec.json = MarshalString(<<"9", "0", "0", "7", "1", "9", "9", "2",
                                    "5", "4", "7", "4", "0", "9", "9", "3">>)
    /\ codec.Int = codec.amount

-----------------------------------------------------------------------------
(* MarkTransferComplete as one step: claim C35 (specification SpecRecord) *)

\* C35: MarkTransferComplete is atomic: no reader and no crash point sees a
\* transfer whose destination hash MarkTransferComplete has set while its
\* status is not Completed.
C35_MarkTransferCompleteAtomic ==
    \A c \in completing :
        \A r \in GetByID(transfers, c.id) :
            r.destination_tx_hash = c.hash => r.status = StatusCompleted

-----------------------------------------------------------------------------
(* Several poll loops: claim C36 (specification SpecPollTwo) *)

\* C36: lastBlock never decreases, also when ListenForEvents was called
\* more than once and several poll loops run.
C36_LastBlockNeverDecreases ==
    [][lastBlock' >= lastBlock]_vars

-----------------------------------------------------------------------------
(* One poll loop: claim C37 (specification SpecPollOne) *)

\* C37: during one run of a single poll loop every bridge log is sent on the
\* event channel at most once, also after a poll that returned an error.
C37_EachLogSentAtMostOnce ==
    \A e \in BagToSet(sentBag) : CopiesIn(e, sentBag) <= 1

-----------------------------------------------------------------------------
(* requiredSignatures and the relayer set: claim C38 (SpecRelayers) *)

\* C38: after any sequence of addRelayer, removeRelayer and
\* updateRequiredSignatures calls, 1 <= requiredSignatures <= number of
\* current relayers.
C38_RequiredSignaturesWithinRelayers ==
    bridge.deployed =>
        /\ bridge.requiredSignatures >= 1
        /\ bridge.requiredSignatures <= Cardinality(bridge.relayers)

-----------------------------------------------------------------------------
(* Failed IBC acknowledgements: claim C40 (specification SpecIBC) *)

\* C40: after an unsuccessful acknowledgement has been processed for an
\* outgoing IBC transfer, the stored IBC transfer record has status failed.
C40_FailedAckLeavesStatusFailed ==
    (/\ cosmosCall.fn = "OnAcknowledgementPacket"
     /\ ~cosmosCall.success
     /\ cosmosCall.err = NoError) =>
        cosmos.ibcTransfers[cosmosCall.seq].status = IBCTransferStatusFailed

====
